---------------------------- MODULE Spec2Model ----------------------------
(***************************************************************************)
(* UnionWins backend: the research-task orchestrator (main.py), the result *)
(* ingester (research_service.py), URL submission (submission_service.py)  *)
(* and the search scheduler (scheduler.py), over one shared store.         *)
(*                                                                         *)
(* The store is modelled by its committed contents: a session's changes    *)
(* reach it at db.commit() and are dropped by db.rollback().  Time is in   *)
(* hours.  A NULL column is 0 for integer columns and "NONE" for text.     *)
(*                                                                         *)
(* Faults: a call of the research API or of the extractor may raise, an    *)
(* INSERT may violate the unique constraint, and the commit of a claim may *)
(* fail.  The commits inside update_request_status succeed.                *)
(***************************************************************************)
EXTENDS Integers, Sequences, FiniteSets, TLC

VARIABLES
    now,        \* wall clock, datetime.now(), in hours
    requests,   \* table search_requests: sequence of rows, id = index
    wins,       \* table union_wins by url: the rows holding that url, oldest first
    orch,       \* locals of the polling thread (process_pending_requests)
    ext,        \* the research API as the program drives it
    sub,        \* one create_submission call per submitter
    sched,      \* the APScheduler instance, its search job, the time of its start
    scrape,     \* locals of one run_scrape_for_source, with its source row
    http,       \* the last response of the synchronous routes
    db,         \* the store session of each unit of work
    txn,        \* external calls made in the open transaction of a session
    pool,       \* one run_all_scrapes: the source rows, its workers, its results
    polling_active  \* main.py's global flag of the polling thread

vars ==
    <<now, requests, wins, orch, ext, sub, sched, scrape, http, db, txn, pool,
      polling_active>>

----------------------------------------------------------------------------
\* Bounds of the model.
MaxRequests == 2
MaxUrls == 2
MaxBatch == 2
MaxSweepBatch == 1
MaxTime == 24
TickHours == 12
SchedTickHours == 6
MaxTasks == 2
MaxFlags == 2
MaxSources == 2
MaxLinks == 21
MaxRuns == 2
ManySources == 6

\* Program constants.
StuckTaskHours == 12
SearchIntervalHours == 12

NULL == 0
NONE == "NONE"

Urls == 1..MaxUrls
Submitters == {"user", "AutoScraper"}

----------------------------------------------------------------------------
\* models.py: the rows.

\* SearchRequestDB(status="pending", date_range=...) with the column defaults.
NewSearchRequest(t) ==
    [status |-> "pending", response_id |-> NULL, new_wins_found |-> 0,
     error_message |-> NONE, created_at |-> t]

\* Column default of union_wins.status.
DefaultWinStatus == "approved"

\* A table without the constraint.
NoConstraint(table, url) == FALSE

\* unique=True on union_wins.url: an INSERT of a url the table holds fails.
UniqueViolation(table, url) == table[url] # <<>>

\* db.add(row); db.commit()
Insert(table, row) == [table EXCEPT ![row.url] = Append(@, row)]

\* db.query(UnionWinDB).all()
Rows(table) ==
    UNION {{table[u][k] : k \in 1..Len(table[u])} : u \in DOMAIN table}

\* The urls the table holds.
StoredUrls(table) == {u \in DOMAIN table : table[u] # <<>>}

\* db.query(UnionWinDB).filter(UnionWinDB.url == url).first() is not None
UrlExists(table, url) == table[url] # <<>>

----------------------------------------------------------------------------
\* search_service.py

\* create_search_request: one committed INSERT, created_at = datetime.now().
CreateSearchRequest(reqs, t) == Append(reqs, NewSearchRequest(t))

\* A faulty query: the first row of the table, if it is pending.
FirstRowIfPending(reqs) ==
    {r \in 1..Len(reqs) : r = 1 /\ reqs[r].status = "pending"}

\* get_pending_requests: .filter(status == "pending").first() carries no
\* ORDER BY, so the row returned is any pending row.
GetPendingRequests(reqs) ==
    {r \in 1..Len(reqs) : reqs[r].status = "pending"}

\* A faulty filter: every row that has a handle.
HasHandle(row) == row.response_id # NULL

\* The rows get_processing_requests selects.
IsProcessing(row) == row.status = "processing" /\ row.response_id # NULL

RECURSIVE ProcessingFrom(_, _)
ProcessingFrom(reqs, r) ==
    IF r > Len(reqs) THEN <<>>
    ELSE IF IsProcessing(reqs[r])
         THEN <<r>> \o ProcessingFrom(reqs, r + 1)
         ELSE ProcessingFrom(reqs, r + 1)

\* get_processing_requests: .all()
\* A faulty query: the rows as they were before any claim, none.
NoProcessingRequests(reqs) == <<>>

GetProcessingRequests(reqs) == ProcessingFrom(reqs, 1)

----------------------------------------------------------------------------
\* research_service.py

RequiredFields == {"title", "date", "url", "summary"}

\* A faulty validation: the summary is not required.
ValidateWinDataNoSummary(win_data) ==
    (RequiredFields \ {"summary"}) \subseteq win_data.keys

\* validate_win_data
ValidateWinData(win_data) == RequiredFields \subseteq win_data.keys

\* create_win_from_data: no status and no submitted_by are given, so the row
\* takes the column defaults.
CreateWinFromData(win_data) ==
    [url |-> win_data.url, status |-> DefaultWinStatus, submitted_by |-> NONE]

\* A faulty update: the count is not written.
UpdateRequestStatusNoCount(reqs, r, status, new_wins_found, error_message) ==
    [reqs EXCEPT ![r] =
        [@ EXCEPT !.status = status,
                  !.error_message =
                      IF error_message # NONE /\ error_message # ""
                      THEN error_message ELSE @]]

\* update_request_status, followed by its commit.
UpdateRequestStatus(reqs, r, status, new_wins_found, error_message) ==
    [reqs EXCEPT ![r] =
        [@ EXCEPT !.status = status,
                  !.new_wins_found = new_wins_found,
                  !.error_message =
                      IF error_message # NONE /\ error_message # ""
                      THEN error_message ELSE @]]

\* Items of a research answer.  dict = FALSE is an array element that is no
\* JSON object: validate_win_data raises TypeError on it.  The item that
\* lacks a required field carries the first url.
Items ==
    {[dict |-> TRUE, url |-> u, keys |-> RequiredFields] : u \in Urls}
    \cup {[dict |-> TRUE, url |-> 1, keys |-> RequiredFields \ {"summary"}]}
    \cup {[dict |-> FALSE, url |-> NULL, keys |-> {}]}

RECURSIVE SeqsUpTo(_, _)
SeqsUpTo(S, n) ==
    IF n = 0 THEN {<<>>}
    ELSE LET shorter == SeqsUpTo(S, n - 1)
         IN  shorter \cup {Append(s, x) : s \in {t \in shorter : Len(t) = n - 1}, x \in S}

\* Output texts of a completed task with at most n items: strict tells
\* whether json.loads accepts the text; fix is what fix_malformed_json makes
\* of it: "ok" (text that parses to items), "bad" (text that still does not
\* parse), "raise".
Outputs(n) ==
    {[strict |-> TRUE, items |-> b, fix |-> "none"] : b \in SeqsUpTo(Items, n)}
    \cup {[strict |-> FALSE, items |-> b, fix |-> "ok"] : b \in SeqsUpTo(Items, n)}
    \cup {[strict |-> FALSE, items |-> <<>>, fix |-> f] : f \in {"bad", "raise"}}

ParseError == "JSONDecodeError"
TypeErrorMsg == "TypeError"

RepairError == "RepairError"

\* A faulty extraction: what the repair raised is what leaves the function.
ExtractJsonRaisingFixError(o) ==
    IF o.strict
    THEN [raised |-> NONE, items |-> o.items, calls |-> <<"loads">>]
    ELSE IF o.fix = "ok"
    THEN [raised |-> NONE, items |-> o.items, calls |-> <<"loads", "fix", "loads">>]
    ELSE IF o.fix = "bad"
    THEN [raised |-> ParseError, items |-> <<>>, calls |-> <<"loads", "fix", "loads">>]
    ELSE [raised |-> RepairError, items |-> <<>>, calls |-> <<"loads", "fix">>]

\* extract_json_from_response: the items, or the original parse error, with
\* the calls made: json.loads, and after a JSONDecodeError fix_malformed_json
\* and json.loads of what it returned.
ExtractJsonFromResponse(o) ==
    IF o.strict
    THEN [raised |-> NONE, items |-> o.items, calls |-> <<"loads">>]
    ELSE IF o.fix = "ok"
    THEN [raised |-> NONE, items |-> o.items, calls |-> <<"loads", "fix", "loads">>]
    ELSE IF o.fix = "bad"
    THEN [raised |-> ParseError, items |-> <<>>, calls |-> <<"loads", "fix", "loads">>]
    ELSE [raised |-> ParseError, items |-> <<>>, calls |-> <<"loads", "fix">>]

----------------------------------------------------------------------------
\* main.py: the messages written by process_pending_requests.
TimeoutMsg == "Task timeout"
ExternalFailedMsg == "OpenAI research task failed"

PollStatuses == {"queued", "in_progress", "completed", "failed"}

\* The polling thread: its position and its local variables.  polled is the
\* response_id passed to poll_task_status in the last iteration of the loop
\* over the processing requests, if it polled.
IdleOrch ==
    [pc |-> "sleep", pending |-> NULL, response_id |-> NULL,
     processing |-> <<>>, polled |-> NULL, output_text |-> NONE,
     wins_data |-> <<>>, i |-> 0, new_wins_count |-> 0, existing |-> {}]

\* A faulty stuck check: twice the bound.
IsStuckAfterTwice(time_elapsed) == time_elapsed > 2 * StuckTaskHours

\* A faulty stuck check: no bound.
IsStuckNever(time_elapsed) == FALSE

\* time_elapsed > timedelta(hours=12)
IsStuck(time_elapsed) == time_elapsed > StuckTaskHours

\* A faulty claim: the status is written without the handle.
ClaimWriteStatusOnly(reqs, r, response_id) ==
    [reqs EXCEPT ![r] = [@ EXCEPT !.status = "processing"]]

\* A faulty claim: the handle is written without the status.
ClaimWriteHandleOnly(reqs, r, response_id) ==
    [reqs EXCEPT ![r] = [@ EXCEPT !.response_id = response_id]]

\* pending.status = "processing"; pending.response_id = response_id; then
\* one db.commit() writes both columns.
ClaimWrite(reqs, r, response_id) ==
    [reqs EXCEPT ![r] =
        [@ EXCEPT !.status = "processing", !.response_id = response_id]]

\* A faulty handler: the requests that remain are dropped from the sweep.
NextRequestEndingSweep(o) ==
    [o EXCEPT !.pc = "loop", !.processing = <<>>, !.output_text = NONE,
              !.wins_data = <<>>, !.i = 0, !.new_wins_count = 0,
              !.existing = {}]

\* Leaving the body of "for request in processing" for the next iteration.
\* The answer and its items are garbage from here on.
NextRequest(o) ==
    [o EXCEPT !.pc = "loop", !.processing = Tail(@), !.output_text = NONE,
              !.wins_data = <<>>, !.i = 0, !.new_wins_count = 0,
              !.existing = {}]

\* The calls of a transaction.  Every external call of a sweep or of a
\* source run follows a query of its session (autocommit=False: the query
\* begins the transaction), so the transaction at a call is the one open
\* since the last db.commit() or db.rollback().  The count is 0, 1, or 2
\* for two calls or more.
Called(t, w) == [t EXCEPT ![w] = IF @ = 0 THEN 1 ELSE 2]
Ended(t, w) == [t EXCEPT ![w] = 0]

\* while polling_active: db = next(get_db()); pending = get_pending_requests(db)
\* The query has no ORDER BY: any pending row may be the first.
SweepBegin ==
    /\ orch.pc = "sleep"
    /\ polling_active
    /\ LET P == GetPendingRequests(requests)
       IN  IF P = {}
           THEN orch' = [IdleOrch EXCEPT !.pc = "list"]
           ELSE \E p \in P :
                  orch' = [IdleOrch EXCEPT !.pc = "create", !.pending = p]
    /\ db' = [db EXCEPT !.sweep = "open"]
    /\ txn' = Ended(txn, "sweep")
    /\ UNCHANGED <<now, requests, wins, ext, sub, sched, scrape, http, pool, polling_active>>

\* response_id = create_background_task(research_input); on an exception the
\* handler rolls back and the request stays pending.
CreateBackgroundTask ==
    /\ orch.pc = "create"
    /\ \E ok \in BOOLEAN :
         IF ok /\ Len(ext.created) < MaxTasks
         THEN /\ ext' = [ext EXCEPT !.created = Append(@, orch.pending)]
              /\ orch' = [orch EXCEPT !.pc = "commit_claim",
                                      !.response_id = Len(ext.created) + 1]
              /\ txn' = Called(txn, "sweep")
         ELSE /\ orch' = [orch EXCEPT !.pc = "list"]
              /\ txn' = Ended(txn, "sweep")
              /\ UNCHANGED ext
    /\ UNCHANGED <<now, requests, wins, sub, sched, scrape, http, db, pool, polling_active>>

\* pending.status / pending.response_id / db.commit(); a failing commit is
\* caught by the same handler (db.rollback()).
CommitClaim ==
    /\ orch.pc = "commit_claim"
    /\ \E ok \in BOOLEAN :
         requests' = IF ok
                     THEN ClaimWrite(requests, orch.pending, orch.response_id)
                     ELSE requests
    /\ orch' = [orch EXCEPT !.pc = "list"]
    /\ txn' = Ended(txn, "sweep")
    /\ UNCHANGED <<now, wins, ext, sub, sched, scrape, http, db, pool, polling_active>>

\* processing = get_processing_requests(db)
ListProcessing ==
    /\ orch.pc = "list"
    /\ orch' = [orch EXCEPT !.pc = "loop",
                            !.processing = GetProcessingRequests(requests),
                            !.pending = NULL, !.response_id = NULL]
    /\ UNCHANGED <<now, requests, wins, ext, sub, sched, scrape, http, db, txn, pool, polling_active>>

\* What poll_task_status does: raise, or return a status and, if completed,
\* the output text (of at most n items).
PollOutcomes(n) ==
    {[raised |-> TRUE, status |-> NONE, output |-> NONE]}
    \cup {[raised |-> FALSE, status |-> s, output |-> NONE] :
            s \in PollStatuses \ {"completed"}}
    \cup {[raised |-> FALSE, status |-> "completed", output |-> o] : o \in Outputs(n)}

\* A faulty iteration: a poll that raises marks the request failed with the
\* text of the exception, and a status other than completed marks it failed
\* as a failed task does.
PollRequestFailingEarly(n) ==
    /\ orch.pc = "loop"
    /\ orch.processing # <<>>
    /\ LET request == Head(orch.processing)
           time_elapsed == now - requests[request].created_at
           o1 == [orch EXCEPT !.polled = NULL]
           o2 == [orch EXCEPT !.polled = requests[request].response_id]
       IN  IF IsStuck(time_elapsed)
           THEN /\ requests' = UpdateRequestStatus(
                                  requests, request, "failed", 0, TimeoutMsg)
                /\ orch' = NextRequest(o1)
                /\ txn' = Ended(txn, "sweep")
           ELSE \E p \in PollOutcomes(n) :
                  IF ~p.raised /\ p.status = "completed"
                  THEN /\ orch' = [o2 EXCEPT !.pc = "extract",
                                             !.output_text = p.output]
                       /\ txn' = Called(txn, "sweep")
                       /\ UNCHANGED requests
                  ELSE /\ requests' = UpdateRequestStatus(
                                         requests, request, "failed", 0,
                                         IF p.raised THEN "APIError"
                                         ELSE ExternalFailedMsg)
                       /\ orch' = NextRequest(o2)
                       /\ txn' = Ended(txn, "sweep")
    /\ UNCHANGED <<now, wins, ext, sub, sched, scrape, http, db, pool, polling_active>>

\* A faulty iteration: the answer of a failed task is ingested after the
\* request was marked failed.
PollRequestIngestingFailed(n) ==
    /\ orch.pc = "loop"
    /\ orch.processing # <<>>
    /\ LET request == Head(orch.processing)
           time_elapsed == now - requests[request].created_at
           o1 == [orch EXCEPT !.polled = NULL]
           o2 == [orch EXCEPT !.polled = requests[request].response_id]
       IN  IF IsStuck(time_elapsed)
           THEN /\ requests' = UpdateRequestStatus(
                                  requests, request, "failed", 0, TimeoutMsg)
                /\ orch' = NextRequest(o1)
                /\ txn' = Ended(txn, "sweep")
           ELSE \E p \in PollOutcomes(n) :
                  IF p.raised
                  THEN /\ orch' = NextRequest(o2)
                       /\ txn' = Ended(txn, "sweep")
                       /\ UNCHANGED requests
                  ELSE IF p.status = "completed"
                  THEN /\ orch' = [o2 EXCEPT !.pc = "extract",
                                             !.output_text = p.output]
                       /\ txn' = Called(txn, "sweep")
                       /\ UNCHANGED requests
                  ELSE IF p.status = "failed"
                  THEN /\ requests' = UpdateRequestStatus(
                                         requests, request, "failed", 0,
                                         ExternalFailedMsg)
                       /\ \E o \in Outputs(n) :
                            orch' = [o2 EXCEPT !.pc = "extract",
                                               !.output_text = o]
                       /\ txn' = Ended(txn, "sweep")
                  ELSE /\ orch' = NextRequest(o2)
                       /\ txn' = Called(txn, "sweep")
                       /\ UNCHANGED requests
    /\ UNCHANGED <<now, wins, ext, sub, sched, scrape, http, db, pool, polling_active>>

\* One iteration of "for request in processing" up to the start of ingestion:
\* the stuck check, the poll, and the branches on its status.
PollRequest(n) ==
    /\ orch.pc = "loop"
    /\ orch.processing # <<>>
    /\ LET request == Head(orch.processing)
           time_elapsed == now - requests[request].created_at
           o1 == [orch EXCEPT !.polled = NULL]
           o2 == [orch EXCEPT !.polled = requests[request].response_id]
       IN  IF IsStuck(time_elapsed)
           THEN /\ requests' = UpdateRequestStatus(
                                  requests, request, "failed", 0, TimeoutMsg)
                /\ orch' = NextRequest(o1)
                /\ txn' = Ended(txn, "sweep")
           ELSE \E p \in PollOutcomes(n) :
                  IF p.raised
                  THEN /\ orch' = NextRequest(o2)
                       /\ txn' = Ended(txn, "sweep")
                       /\ UNCHANGED requests
                  ELSE IF p.status = "completed"
                  THEN /\ orch' = [o2 EXCEPT !.pc = "extract",
                                             !.output_text = p.output]
                       /\ txn' = Called(txn, "sweep")
                       /\ UNCHANGED requests
                  ELSE IF p.status = "failed"
                  THEN /\ requests' = UpdateRequestStatus(
                                         requests, request, "failed", 0,
                                         ExternalFailedMsg)
                       /\ orch' = NextRequest(o2)
                       /\ txn' = Ended(txn, "sweep")
                  ELSE /\ orch' = NextRequest(o2)
                       /\ txn' = Called(txn, "sweep")
                       /\ UNCHANGED requests
    /\ UNCHANGED <<now, wins, ext, sub, sched, scrape, http, db, pool, polling_active>>

\* process_research_results: extract_json_from_response, then save_wins_to_db.
\* An exception leaves to the handler of process_pending_requests, which
\* rolls back and marks the request failed with str(e).
ProcessResearchResults ==
    /\ orch.pc = "extract"
    /\ LET x == ExtractJsonFromResponse(orch.output_text)
       IN  IF x.raised # NONE
           THEN /\ requests' = UpdateRequestStatus(
                                  requests, Head(orch.processing), "failed", 0,
                                  x.raised)
                /\ orch' = NextRequest(orch)
                /\ txn' = Ended(txn, "sweep")
           ELSE /\ orch' = [orch EXCEPT !.pc = "save", !.output_text = NONE,
                                        !.wins_data = x.items, !.i = 1,
                                        !.new_wins_count = 0,
                                        !.existing = StoredUrls(wins)]
                /\ txn' = IF \E k \in 1..Len(x.calls) : x.calls[k] = "fix"
                          THEN Called(txn, "sweep") ELSE txn
                /\ UNCHANGED requests
    /\ UNCHANGED <<now, wins, ext, sub, sched, scrape, http, db, pool, polling_active>>

\* str(e) of exceptions that process_research_results can let through
\* besides those of the parse and of the items: the text of a database
\* error, and the empty text of an exception raised without arguments
\* (str(MemoryError()) == "").
OtherErrorTexts == {"OperationalError", ""}

\* process_research_results raises some other exception: the handler rolls
\* back and calls update_request_status(db, request, "failed",
\* error_message=str(e)).
IngestRaises(text) ==
    /\ orch.pc \in {"extract", "save", "save_commit"}
    /\ requests' = UpdateRequestStatus(
                      requests, Head(orch.processing), "failed", 0, text)
    /\ orch' = NextRequest(orch)
    /\ txn' = Ended(txn, "sweep")
    /\ UNCHANGED <<now, wins, ext, sub, sched, scrape, http, db, pool, polling_active>>

\* A faulty ingester: the first duplicate ends the batch.
AbortOnDuplicate(o) == [o EXCEPT !.pc = "saved"]

\* What save_wins_to_db does at an item that is a duplicate: go on with the
\* next item.
OnDuplicate(o) == [o EXCEPT !.pc = "save", !.i = @ + 1]

\* save_wins_to_db, one item up to its commit: validate, check_duplicate_win,
\* db.add.  After the last item the function returns new_wins_count.  An
\* exception leaves through process_research_results to the same handler.
SaveWinsCheck ==
    /\ orch.pc = "save"
    /\ LET i == orch.i
           d == orch.wins_data
       IN  IF i > Len(d)
           THEN /\ orch' = [orch EXCEPT !.pc = "saved"]
                /\ UNCHANGED <<requests, txn>>
           ELSE IF ~d[i].dict
           THEN /\ requests' = UpdateRequestStatus(
                                  requests, Head(orch.processing), "failed", 0,
                                  TypeErrorMsg)
                /\ orch' = NextRequest(orch)
                /\ txn' = Ended(txn, "sweep")
           ELSE IF ~ValidateWinData(d[i])
           THEN /\ orch' = [orch EXCEPT !.i = @ + 1]
                /\ UNCHANGED <<requests, txn>>
           ELSE IF UrlExists(wins, d[i].url)
           THEN /\ orch' = OnDuplicate(orch)
                /\ UNCHANGED <<requests, txn>>
           ELSE /\ orch' = [orch EXCEPT !.pc = "save_commit"]
                /\ UNCHANGED <<requests, txn>>
    /\ UNCHANGED <<now, wins, ext, sub, sched, scrape, http, db, pool, polling_active>>

\* A faulty commit: the item is counted before the commit is attempted.
SaveWinsCommitCountingFirst ==
    /\ orch.pc = "save_commit"
    /\ LET win_data == orch.wins_data[orch.i]
           counted == [orch EXCEPT !.new_wins_count = @ + 1]
       IN  IF UniqueViolation(wins, win_data.url)
           THEN /\ orch' = OnDuplicate(counted)
                /\ UNCHANGED wins
           ELSE /\ wins' = Insert(wins, CreateWinFromData(win_data))
                /\ orch' = [counted EXCEPT !.pc = "save", !.i = @ + 1]
    /\ txn' = Ended(txn, "sweep")
    /\ UNCHANGED <<now, requests, ext, sub, sched, scrape, http, db, pool, polling_active>>

\* A faulty commit: the running count is written to the request with each
\* record.
SaveWinsCommitReportingCount ==
    /\ orch.pc = "save_commit"
    /\ LET win_data == orch.wins_data[orch.i]
       IN  IF UniqueViolation(wins, win_data.url)
           THEN /\ orch' = OnDuplicate(orch)
                /\ UNCHANGED <<wins, requests>>
           ELSE /\ wins' = Insert(wins, CreateWinFromData(win_data))
                /\ orch' = [orch EXCEPT !.pc = "save", !.i = @ + 1,
                                        !.new_wins_count = @ + 1]
                /\ requests' = [requests EXCEPT
                      ![Head(orch.processing)].new_wins_found =
                          orch.new_wins_count + 1]
    /\ txn' = Ended(txn, "sweep")
    /\ UNCHANGED <<now, ext, sub, sched, scrape, http, db, pool, polling_active>>

\* save_wins_to_db: db.commit() of one item; IntegrityError rolls that one
\* insert back.
SaveWinsCommit ==
    /\ orch.pc = "save_commit"
    /\ LET win_data == orch.wins_data[orch.i]
       IN  IF UniqueViolation(wins, win_data.url)
           THEN /\ orch' = OnDuplicate(orch)
                /\ UNCHANGED wins
           ELSE /\ wins' = Insert(wins, CreateWinFromData(win_data))
                /\ orch' = [orch EXCEPT !.pc = "save", !.i = @ + 1,
                                        !.new_wins_count = @ + 1]
    /\ txn' = Ended(txn, "sweep")
    /\ UNCHANGED <<now, requests, ext, sub, sched, scrape, http, db, pool, polling_active>>

\* A faulty completion: every item of the answer is counted.
CompleteRequestCountingItems ==
    /\ orch.pc = "saved"
    /\ requests' = UpdateRequestStatus(
                      requests, Head(orch.processing), "completed",
                      Len(orch.wins_data), NONE)
    /\ orch' = NextRequest(orch)
    /\ txn' = Ended(txn, "sweep")
    /\ UNCHANGED <<now, wins, ext, sub, sched, scrape, http, db, pool, polling_active>>

\* update_request_status(db, request, "completed", new_wins_found=new_wins_count)
CompleteRequest ==
    /\ orch.pc = "saved"
    /\ requests' = UpdateRequestStatus(
                      requests, Head(orch.processing), "completed",
                      orch.new_wins_count, NONE)
    /\ orch' = NextRequest(orch)
    /\ txn' = Ended(txn, "sweep")
    /\ UNCHANGED <<now, wins, ext, sub, sched, scrape, http, db, pool, polling_active>>

\* "while polling_active:" read as False after a sleep: the loop ends,
\* process_pending_requests returns and the thread with it.
LoopExit ==
    /\ orch.pc = "sleep"
    /\ ~polling_active
    /\ orch' = [IdleOrch EXCEPT !.pc = "exited"]
    /\ UNCHANGED <<now, requests, wins, ext, sub, sched, scrape, http, db, txn, pool, polling_active>>

\* threading.Thread(target=safe_process_pending_requests, daemon=True) and
\* no join in lifespan: once the shutdown part of lifespan has run, the
\* interpreter exits without waiting for the thread, which stops where it
\* is.
InterpreterExit ==
    /\ ~polling_active
    /\ orch.pc \notin {"exited", "killed"}
    /\ orch' = [orch EXCEPT !.pc = "killed"]
    /\ UNCHANGED <<now, requests, wins, ext, sub, sched, scrape, http, db, txn, pool, polling_active>>

\* finally: db.close(); time.sleep(POLLING_INTERVAL_SECONDS)
SweepEnd ==
    /\ orch.pc = "loop"
    /\ orch.processing = <<>>
    /\ orch' = IdleOrch
    /\ db' = [db EXCEPT !.sweep = "closed"]
    /\ txn' = Ended(txn, "sweep")
    /\ UNCHANGED <<now, requests, wins, ext, sub, sched, scrape, http, pool, polling_active>>

\* A faulty sweep: the outer handler rolls back and the session stays open.
SweepAbortLeavingOpen ==
    /\ orch.pc \in {"sleep", "list"}
    /\ orch' = IdleOrch
    /\ db' = [db EXCEPT !.sweep = "open"]
    /\ txn' = Ended(txn, "sweep")
    /\ UNCHANGED <<now, requests, wins, ext, sub, sched, scrape, http, pool, polling_active>>

\* get_pending_requests or get_processing_requests raises: except Exception:
\* db.rollback(); finally: db.close(); then the sleep.
SweepAbort ==
    /\ orch.pc \in {"sleep", "list"}
    /\ orch' = IdleOrch
    /\ db' = [db EXCEPT !.sweep = "closed"]
    /\ txn' = Ended(txn, "sweep")
    /\ UNCHANGED <<now, requests, wins, ext, sub, sched, scrape, http, pool, polling_active>>

----------------------------------------------------------------------------
\* submission_service.py

\* raise ValueError(...) of the pre-check, and of the IntegrityError handler.
PrecheckDuplicateError == "This URL has already been submitted"
CommitDuplicateError == "This URL has already been submitted"
ExtractFailedError == "Failed to extract information from URL"

\* The row create_submission builds.
NewSubmission(url, submitted_by) ==
    [url |-> url, status |-> "pending", submitted_by |-> submitted_by]

\* A call of create_submission: its position and its url, and once it has
\* returned, the message of the ValueError it raised (NONE when it returned
\* the new row) and the place it left from.
IdleSub == [pc |-> "idle", url |-> NULL, raised |-> NONE, at |-> NONE]

\* What the caller gets.
Returned(s, at, raised) ==
    [s EXCEPT !.pc = "idle", !.at = at, !.raised = raised]

\* create_submission, the pre-check.
SubmitPrecheck(p, url) ==
    /\ sub[p].pc = "idle"
    /\ sub' = [sub EXCEPT ![p] =
                 IF UrlExists(wins, url)
                 THEN Returned([IdleSub EXCEPT !.url = url], "precheck",
                               PrecheckDuplicateError)
                 ELSE [IdleSub EXCEPT !.pc = "scrape", !.url = url]]
    /\ UNCHANGED <<now, requests, wins, orch, ext, sched, scrape, http, db, txn, pool, polling_active>>

\* create_submission, scrape_url_with_openai: data, or None on any failure.
SubmitScrape(p) ==
    /\ sub[p].pc = "scrape"
    /\ \E scraped \in BOOLEAN :
         sub' = [sub EXCEPT ![p] =
                   IF scraped
                   THEN [@ EXCEPT !.pc = "commit"]
                   ELSE Returned(@, "scrape", ExtractFailedError)]
    /\ UNCHANGED <<now, requests, wins, orch, ext, sched, scrape, http, db, txn, pool, polling_active>>

\* create_submission, UnionWinDB(title=scraped_data["title"], ...): the
\* extracted data lack a field and the KeyError leaves the call.
SubmitKeyError(p) ==
    /\ sub[p].pc = "commit"
    /\ sub' = [sub EXCEPT ![p] = Returned(@, "build", "KeyError")]
    /\ UNCHANGED <<now, requests, wins, orch, ext, sched, scrape, http, db, txn, pool, polling_active>>

\* A faulty commit: the IntegrityError reaches the caller as another error.
SubmitCommitOtherError(p) ==
    /\ sub[p].pc = "commit"
    /\ IF UniqueViolation(wins, sub[p].url)
       THEN /\ sub' = [sub EXCEPT ![p] = Returned(@, "commit", "IntegrityError")]
            /\ UNCHANGED wins
       ELSE /\ wins' = Insert(wins, NewSubmission(sub[p].url, p))
            /\ sub' = [sub EXCEPT ![p] = Returned(@, "commit", NONE)]
    /\ UNCHANGED <<now, requests, orch, ext, sched, scrape, http, db, txn, pool, polling_active>>

\* A faulty commit: the new submission replaces the row that holds the url.
SubmitCommitUpsert(p) ==
    /\ sub[p].pc = "commit"
    /\ wins' = [wins EXCEPT ![sub[p].url] = <<NewSubmission(sub[p].url, p)>>]
    /\ sub' = [sub EXCEPT ![p] = Returned(@, "commit", NONE)]
    /\ UNCHANGED <<now, requests, orch, ext, sched, scrape, http, db, txn, pool, polling_active>>

\* create_submission, db.add / db.commit: the row, or on IntegrityError a
\* rollback and the ValueError.
SubmitCommit(p) ==
    /\ sub[p].pc = "commit"
    /\ IF UniqueViolation(wins, sub[p].url)
       THEN /\ sub' = [sub EXCEPT ![p] =
                         Returned(@, "commit", CommitDuplicateError)]
            /\ UNCHANGED wins
       ELSE /\ wins' = Insert(wins, NewSubmission(sub[p].url, p))
            /\ sub' = [sub EXCEPT ![p] = Returned(@, "commit", NONE)]
    /\ UNCHANGED <<now, requests, orch, ext, sched, scrape, http, db, txn, pool, polling_active>>

\* approve_submission / reject_submission: the moderation actions, on the
\* k-th row holding url.
ReviewSubmission(url, k, status) ==
    /\ k \in 1..Len(wins[url])
    /\ wins[url][k].status # status
    /\ wins' = [wins EXCEPT ![url][k].status = status]
    /\ UNCHANGED <<now, requests, orch, ext, sub, sched, scrape, http, db, txn, pool, polling_active>>

\* win_service.get_all_wins: the public feed.
GetAllWins(table) == {row \in Rows(table) : row.status = "approved"}

----------------------------------------------------------------------------
\* scraping_service.py

\* The text of an exception that no handler names.
InternalErrors == {"OperationalError"}

FetchFailedMsg == "Failed to fetch page"
FetchFailedError == "Failed to fetch page content"
NoNewLinksMsg == "No new links found"

\* The columns of a row of scrape_sources that a run writes, before the
\* first run of the source.
NeverScraped ==
    [last_scraped_at |-> <<>>, last_scrape_status |-> NONE,
     last_scrape_error |-> NONE]

\* source.last_scraped_at = datetime.now(); source.last_scrape_status = ...;
\* source.last_scrape_error = ...
Scraped(status, error) ==
    [last_scraped_at |-> <<now>>, last_scrape_status |-> status,
     last_scrape_error |-> error]

\* A source run that has not started; the source row has never been run.
\* history lists the statuses that the runs of the source have written.
IdleScrape ==
    [pc |-> "idle", candidates |-> <<>>, new_candidates |-> <<>>,
     b |-> 0, classifier |-> <<>>, history |-> <<>>,
     likely_wins |-> <<>>, i |-> 0, submitted_count |-> 0,
     result |-> [status |-> NONE],
     source |-> NeverScraped]

\* A faulty report: a success leaves the error text of the run before.
FinishScrapeKeepingError(s, status, error, result) ==
    [s EXCEPT !.pc = "done", !.result = result,
              !.history = Append(@, status),
              !.source = Scraped(status, IF error = NONE
                                         THEN s.source.last_scrape_error
                                         ELSE error)]

\* source.last_scrape_status = ...; db.commit(); return {...}
FinishScrape(s, status, error, result) ==
    [s EXCEPT !.pc = "done", !.result = result,
              !.history = Append(@, status),
              !.source = Scraped(status, error)]

\* extract_candidates: the links of a page in page order, each url once
\* (seen_urls).  The pages drawn list their links by ascending url.
Candidates ==
    {c \in SeqsUpTo(Urls, MaxUrls) : \A j, k \in 1..Len(c) : j < k => c[j] < c[k]}

\* batch_size of filter_candidates_with_llm
BatchSize == 20

\* A faulty dedup: every candidate goes on.
AllCandidates(c, table) == c

\* [c for c in candidates if c['url'] not in existing_urls]
NewCandidates(c, table) ==
    SelectSeq(c, LAMBDA u : ~UrlExists(table, u))

\* filter_candidates_with_llm on one batch: for rid in relevant_ids:
\* if 0 <= rid < len(batch): good_candidates.append(batch[rid])
FilterCandidatesWithLlm(batch, relevant_ids) ==
    LET inrange == SelectSeq(relevant_ids, LAMBDA rid : 0 <= rid /\ rid < Len(batch))
    IN  [k \in 1..Len(inrange) |-> batch[inrange[k] + 1]]

\* run_scrape_for_source_safe: db = SessionLocal(), and finally: db.close()
\* when run_scrape_for_source returns.
\* run_scrape_for_source, steps 1 to 3: the fetch, the links, the urls that
\* the table holds.  An exception after the fetch reaches the outer handler,
\* which reports its text after "Scrape failed: ".
ScrapeExtract ==
    /\ scrape.pc = "idle"
    /\ \/ scrape' = FinishScrape(scrape, "error", FetchFailedError,
                                 [status |-> "error", message |-> FetchFailedMsg])
       \/ \E e \in InternalErrors :
            scrape' = FinishScrape(scrape, "error", e,
                                   [status |-> "error", message |-> e])
       \/ \E c \in Candidates :
            LET new_candidates == NewCandidates(c, wins)
            IN  scrape' =
                  IF new_candidates = <<>>
                  THEN FinishScrape([scrape EXCEPT !.candidates = c], "success", NONE,
                                    [status |-> "success", new_wins |-> 0,
                                     message |-> NoNewLinksMsg])
                  ELSE [scrape EXCEPT !.pc = "classify", !.candidates = c,
                                      !.new_candidates = new_candidates]
    /\ db' = [db EXCEPT !.worker = IF scrape'.pc = "done" THEN "closed" ELSE "open"]
    /\ txn' = IF scrape'.pc = "done" THEN Ended(txn, "worker")
              ELSE Called(Ended(txn, "worker"), "worker")
    /\ UNCHANGED <<now, requests, wins, orch, ext, sub, sched, http, pool, polling_active>>

\* candidates[i:i+batch_size], with b the i of the loop.
Batch(c, b) ==
    SubSeq(c, b + 1, IF b + BatchSize <= Len(c) THEN b + BatchSize ELSE Len(c))

\* A faulty filter: the first batch whose call fails ends the loop.
ScrapeClassifyEndingOnError ==
    /\ scrape.pc = "classify"
    /\ \E failed \in BOOLEAN, relevant_ids \in SeqsUpTo(0..MaxUrls, MaxFlags) :
         /\ failed => relevant_ids = <<>>
         /\ LET batch == Batch(scrape.new_candidates, scrape.b)
                seen == [scrape EXCEPT
                           !.classifier =
                               Append(@, IF failed THEN "raised" ELSE "ok"),
                           !.likely_wins =
                               @ \o FilterCandidatesWithLlm(batch, relevant_ids)]
            IN  scrape' =
                  IF failed \/ scrape.b + BatchSize >= Len(scrape.new_candidates)
                  THEN [seen EXCEPT !.pc = "submit", !.i = 1,
                                    !.submitted_count = 0]
                  ELSE [seen EXCEPT !.b = @ + BatchSize]
    /\ txn' = Called(txn, "worker")
    /\ UNCHANGED <<now, requests, wins, orch, ext, sub, sched, http, db, pool, polling_active>>

\* run_scrape_for_source, step 4, one batch of filter_candidates_with_llm:
\* the classifier names ids of the batch, or its call fails and the batch
\* is skipped; classifier is the log of the calls.  After the last batch the
\* submit loop begins.
ScrapeClassify ==
    /\ scrape.pc = "classify"
    /\ \E failed \in BOOLEAN, relevant_ids \in SeqsUpTo(0..MaxUrls, MaxFlags) :
         /\ failed => relevant_ids = <<>>
         /\ LET batch == Batch(scrape.new_candidates, scrape.b)
                seen == [scrape EXCEPT
                           !.classifier =
                               Append(@, IF failed THEN "raised" ELSE "ok"),
                           !.likely_wins =
                               @ \o FilterCandidatesWithLlm(batch, relevant_ids)]
            IN  scrape' =
                  IF scrape.b + BatchSize >= Len(scrape.new_candidates)
                  THEN [seen EXCEPT !.pc = "submit", !.i = 1,
                                    !.submitted_count = 0]
                  ELSE [seen EXCEPT !.b = @ + BatchSize]
    /\ txn' = Called(txn, "worker")
    /\ UNCHANGED <<now, requests, wins, orch, ext, sub, sched, http, db, pool, polling_active>>

\* run_scrape_for_source, step 5: create_submission(db, url, "AutoScraper").
ScrapeSubmitCall ==
    /\ scrape.pc = "submit"
    /\ scrape.i <= Len(scrape.likely_wins)
    /\ sub["AutoScraper"].at = NONE
    /\ SubmitPrecheck("AutoScraper", scrape.likely_wins[scrape.i])

\* A faulty loop: a call that raised is counted too.
ScrapeSubmitReturnCountingAll ==
    /\ scrape.pc = "submit"
    /\ sub["AutoScraper"].pc = "idle"
    /\ sub["AutoScraper"].at # NONE
    /\ scrape' = [scrape EXCEPT !.i = @ + 1, !.submitted_count = @ + 1]
    /\ sub' = [sub EXCEPT !["AutoScraper"] = IdleSub]
    /\ txn' = IF sub["AutoScraper"].at = "commit" THEN Ended(txn, "worker")
              ELSE IF sub["AutoScraper"].at \in {"scrape", "build"}
              THEN Called(txn, "worker")
              ELSE txn
    /\ UNCHANGED <<now, requests, wins, orch, ext, sched, http, db, pool, polling_active>>

\* A faulty loop: an error that is no duplicate ends the run.
ScrapeSubmitReturnAborting ==
    /\ scrape.pc = "submit"
    /\ sub["AutoScraper"].pc = "idle"
    /\ sub["AutoScraper"].at # NONE
    /\ LET raised == sub["AutoScraper"].raised
       IN  scrape' =
             IF raised \in {NONE, PrecheckDuplicateError, CommitDuplicateError}
             THEN [scrape EXCEPT !.i = @ + 1,
                                 !.submitted_count =
                                     IF raised = NONE THEN @ + 1 ELSE @]
             ELSE FinishScrape(scrape, "error", raised,
                               [status |-> "error", message |-> raised])
    /\ sub' = [sub EXCEPT !["AutoScraper"] = IdleSub]
    /\ txn' = IF sub["AutoScraper"].at = "commit" THEN Ended(txn, "worker")
              ELSE IF sub["AutoScraper"].at \in {"scrape", "build"}
              THEN Called(txn, "worker")
              ELSE txn
    /\ UNCHANGED <<now, requests, wins, orch, ext, sched, http, db, pool, polling_active>>

\* run_scrape_for_source, step 5: the call has returned the row, or raised.
\* It has called the extractor unless its pre-check raised, and has ended
\* the transaction if it reached its commit.
ScrapeSubmitReturn ==
    /\ scrape.pc = "submit"
    /\ sub["AutoScraper"].pc = "idle"
    /\ sub["AutoScraper"].at # NONE
    /\ scrape' = [scrape EXCEPT
                    !.i = @ + 1,
                    !.submitted_count =
                        IF sub["AutoScraper"].raised = NONE THEN @ + 1 ELSE @]
    /\ sub' = [sub EXCEPT !["AutoScraper"] = IdleSub]
    /\ txn' = IF sub["AutoScraper"].at = "commit" THEN Ended(txn, "worker")
              ELSE IF sub["AutoScraper"].at \in {"scrape", "build"}
              THEN Called(txn, "worker")
              ELSE txn
    /\ UNCHANGED <<now, requests, wins, orch, ext, sched, http, db, pool, polling_active>>

\* run_scrape_for_source, the report, and the finally of
\* run_scrape_for_source_safe.
ScrapeReport ==
    /\ scrape.pc = "submit"
    /\ scrape.i > Len(scrape.likely_wins)
    /\ scrape' = FinishScrape(scrape, "success", NONE,
                    [status |-> "success",
                     raw_links_found |-> Len(scrape.candidates),
                     new_links_checked |-> Len(scrape.new_candidates),
                     wins_identified |-> Len(scrape.likely_wins),
                     wins_submitted |-> scrape.submitted_count])
    /\ db' = [db EXCEPT !.worker = "closed"]
    /\ txn' = Ended(txn, "worker")
    /\ UNCHANGED <<now, requests, wins, orch, ext, sub, sched, http, pool, polling_active>>

\* routes/scraping.py run_scrape: the next run of the source, once the run
\* before has returned.
RunScrape ==
    /\ scrape.pc = "done"
    /\ Len(scrape.history) < MaxRuns
    /\ scrape' = [IdleScrape EXCEPT !.source = scrape.source,
                                    !.history = scrape.history]
    /\ UNCHANGED <<now, requests, wins, orch, ext, sub, sched, http, db, txn, pool, polling_active>>

\* One source run.
RunScrapeForSource ==
    \/ ScrapeExtract
    \/ ScrapeClassify
    \/ ScrapeSubmitCall
    \/ SubmitScrape("AutoScraper")
    \/ SubmitCommit("AutoScraper")
    \/ ScrapeSubmitReturn
    \/ ScrapeReport

\* run_all_scrapes

\* ThreadPoolExecutor(max_workers=5)
MaxWorkers == 5

Sources == 1..MaxSources

\* The text of an exception that leaves run_scrape_for_source_safe.
WorkerErrors == {"OperationalError"}

\* No sweep is running.  active is the column is_active of each source, rows
\* the columns a run writes; future is the state of the worker of a source,
\* calls the external calls it has made, runs the number of times it was
\* started, result what it returned or raised.
IdlePool ==
    [pc |-> "idle",
     active |-> [s \in Sources |-> 1],
     rows |-> [s \in Sources |-> NeverScraped],
     source_ids |-> <<>>,
     future |-> [s \in Sources |-> "none"],
     calls |-> [s \in Sources |-> <<>>],
     runs |-> [s \in Sources |-> 0],
     result |-> [s \in Sources |-> [status |-> NONE]],
     results |-> <<>>]

\* A faulty listing: every source, active or not.
AllSourceIds(active) == [k \in DOMAIN active |-> k]

\* .filter(ScrapeSourceDB.is_active == 1).all(), by ascending id.
RECURSIVE ActiveFrom(_, _)
ActiveFrom(active, s) ==
    IF s \notin DOMAIN active THEN <<>>
    ELSE IF active[s] = 1 THEN <<s>> \o ActiveFrom(active, s + 1)
    ELSE ActiveFrom(active, s + 1)

\* The ids that run_all_scrapes reads.
ActiveSourceIds(active) == ActiveFrom(active, 1)

\* routes/scraping.py delete_source: the soft delete.
DeleteSource(sid) ==
    /\ pool.active[sid] = 1
    /\ pool' = [pool EXCEPT !.active[sid] = 0]
    /\ UNCHANGED <<now, requests, wins, orch, ext, sub, sched, scrape, http, db, txn, polling_active>>

\* routes/scraping.py add_source with the url of an inactive source.
AddSource(sid) ==
    /\ pool.active[sid] = 0
    /\ pool' = [pool EXCEPT !.active[sid] = 1]
    /\ UNCHANGED <<now, requests, wins, orch, ext, sub, sched, scrape, http, db, txn, polling_active>>

\* run_all_scrapes: the query of the ids, and executor.submit for each.
RunAllScrapes ==
    /\ pool.pc = "idle"
    /\ LET source_ids == ActiveSourceIds(pool.active)
       IN  pool' = [pool EXCEPT
                      !.pc = "collect",
                      !.source_ids = source_ids,
                      !.future = [s \in DOMAIN pool.future |->
                                    IF \E k \in 1..Len(source_ids) : source_ids[k] = s
                                    THEN "queued" ELSE "none"]]
    /\ UNCHANGED <<now, requests, wins, orch, ext, sub, sched, scrape, http, db, txn, polling_active>>

\* A faulty pool: a thread for every call.
NoneRunning(f) == {}

\* The workers that hold a thread of the pool.
Running(f) == {s \in DOMAIN f : f[s] = "fetched"}

\* A faulty worker: a failed fetch leaves the row of the source as it was.
WorkerFetchFailingQuietly(sid) ==
    /\ pool.pc = "collect"
    /\ pool.future[sid] = "queued"
    /\ Cardinality(Running(pool.future)) < MaxWorkers
    /\ \E outcome \in {"raise", "none", "html"} :
         LET started == [pool EXCEPT !.runs[sid] = @ + 1]
         IN  IF outcome = "raise"
             THEN \E e \in WorkerErrors :
                    pool' = [started EXCEPT
                               !.future[sid] = "raised",
                               !.result[sid] = [status |-> "error", message |-> e]]
             ELSE IF outcome = "none"
             THEN pool' = [started EXCEPT
                             !.future[sid] = "done",
                             !.calls[sid] = <<"fetch">>,
                             !.result[sid] = [status |-> "error",
                                              message |-> FetchFailedMsg]]
             ELSE pool' = [started EXCEPT
                             !.future[sid] = "fetched",
                             !.calls[sid] = <<"fetch">>]
    /\ UNCHANGED <<now, requests, wins, orch, ext, sub, sched, scrape, http, db, txn, polling_active>>

\* A worker takes a thread: run_scrape_for_source_safe up to the fetch of
\* run_scrape_for_source.  SessionLocal() raises, or the fetch fails and the
\* run ends, or the page is there.
WorkerFetch(sid) ==
    /\ pool.pc = "collect"
    /\ pool.future[sid] = "queued"
    /\ Cardinality(Running(pool.future)) < MaxWorkers
    /\ \E outcome \in {"raise", "none", "html"} :
         LET started == [pool EXCEPT !.runs[sid] = @ + 1]
         IN  IF outcome = "raise"
             THEN \E e \in WorkerErrors :
                    pool' = [started EXCEPT
                               !.future[sid] = "raised",
                               !.result[sid] = [status |-> "error", message |-> e]]
             ELSE IF outcome = "none"
             THEN pool' = [started EXCEPT
                             !.future[sid] = "done",
                             !.calls[sid] = <<"fetch">>,
                             !.rows[sid] = Scraped("error", FetchFailedError),
                             !.result[sid] = [status |-> "error",
                                              message |-> FetchFailedMsg]]
             ELSE pool' = [started EXCEPT
                             !.future[sid] = "fetched",
                             !.calls[sid] = <<"fetch">>]
    /\ UNCHANGED <<now, requests, wins, orch, ext, sub, sched, scrape, http, db, txn, polling_active>>

\* run_scrape_for_source after the fetch, as the pool sees it: an exception
\* reaches the outer handler, or no link is new, or the links are
\* classified and the flagged ones submitted, with the extractor called
\* for those that pass the pre-check.
WorkerPipeline(sid) ==
    /\ pool.pc = "collect"
    /\ pool.future[sid] = "fetched"
    /\ \E outcome \in {"except", "no_new", "classified", "extracted"} :
         LET done == [pool EXCEPT !.future[sid] = "done"]
         IN  IF outcome = "except"
             THEN \E e \in InternalErrors :
                    pool' = [done EXCEPT
                               !.rows[sid] = Scraped("error", e),
                               !.result[sid] = [status |-> "error", message |-> e]]
             ELSE pool' = [done EXCEPT
                             !.rows[sid] = Scraped("success", NONE),
                             !.calls[sid] =
                                 IF outcome = "no_new" THEN @
                                 ELSE IF outcome = "classified"
                                 THEN @ \o <<"classify">>
                                 ELSE @ \o <<"classify", "extract">>,
                             !.result[sid] = [status |-> "success"]]
    /\ UNCHANGED <<now, requests, wins, orch, ext, sub, sched, scrape, http, db, txn, polling_active>>

\* for future in as_completed(future_to_id): results.append(...), in the try
\* or in the except of future.result().
CollectResult(sid) ==
    /\ pool.pc = "collect"
    /\ pool.future[sid] \in {"done", "raised"}
    /\ pool' = [pool EXCEPT
                  !.future[sid] = "collected",
                  !.results = Append(@, [source_id |-> sid,
                                         result |-> pool.result[sid]])]
    /\ UNCHANGED <<now, requests, wins, orch, ext, sub, sched, scrape, http, db, txn, polling_active>>

\* return results
ReturnResults ==
    /\ pool.pc = "collect"
    /\ \A s \in DOMAIN pool.future : pool.future[s] \in {"none", "collected"}
    /\ pool' = [pool EXCEPT !.pc = "returned"]
    /\ UNCHANGED <<now, requests, wins, orch, ext, sub, sched, scrape, http, db, txn, polling_active>>

----------------------------------------------------------------------------
\* scheduler.py

\* .order_by(created_at.desc()).first().created_at
LastCreatedAt(reqs) ==
    CHOOSE t \in {reqs[r].created_at : r \in 1..Len(reqs)} :
        \A r \in 1..Len(reqs) : reqs[r].created_at <= t

\* A faulty start: always one interval from now.
NextRunFromNow(reqs, t) == t + SearchIntervalHours

\* A faulty start: one interval from the last request, even when that is past.
NextRunFromLast(reqs, t) ==
    IF Len(reqs) > 0
    THEN LastCreatedAt(reqs) + SearchIntervalHours
    ELSE t + SearchIntervalHours

\* start_scheduler: the next_run_time handed to add_job.
NextRunTime(reqs, t) ==
    IF Len(reqs) > 0
    THEN LET next_run == LastCreatedAt(reqs) + SearchIntervalHours
         IN  IF next_run <= t THEN t + SearchIntervalHours ELSE next_run
    ELSE t + SearchIntervalHours

\* start_scheduler: if not scheduler.running: add_job(...); scheduler.start()
StartScheduler ==
    /\ ~sched.running
    /\ sched' = [running |-> TRUE, next_run |-> NextRunTime(requests, now),
                 started_at |-> now]
    /\ UNCHANGED <<now, requests, wins, orch, ext, sub, scrape, http, db, txn, pool, polling_active>>

\* stop_scheduler: scheduler.shutdown()
StopScheduler ==
    /\ sched.running
    /\ sched' = [running |-> FALSE, next_run |-> NULL, started_at |-> NULL]
    /\ UNCHANGED <<now, requests, wins, orch, ext, sub, scrape, http, db, txn, pool, polling_active>>

\* lifespan after the yield: polling_active = False; stop_scheduler(), which
\* shuts the scheduler down if it runs.
Shutdown ==
    /\ polling_active
    /\ polling_active' = FALSE
    /\ sched' = IF sched.running
                THEN [running |-> FALSE, next_run |-> NULL, started_at |-> NULL]
                ELSE sched
    /\ UNCHANGED <<now, requests, wins, orch, ext, sub, scrape, http, db, txn, pool>>

\* The IntervalTrigger(hours=12) job when due: scheduled_search_job opens a
\* session, queues a request or logs the exception and rolls back, and
\* closes the session; the trigger moves on by one interval.
ScheduledSearchJob ==
    /\ sched.running
    /\ now = sched.next_run
    /\ \E ok \in BOOLEAN :
         requests' = IF ok /\ Len(requests) < MaxRequests
                     THEN CreateSearchRequest(requests, now)
                     ELSE requests
    /\ sched' = [sched EXCEPT !.next_run = @ + SearchIntervalHours]
    /\ db' = [db EXCEPT !.job = "closed"]
    /\ UNCHANGED <<now, wins, orch, ext, sub, scrape, http, txn, pool, polling_active>>

----------------------------------------------------------------------------
\* routes/search.py search_wins: queue a request.
SearchWins ==
    /\ Len(requests) < MaxRequests
    /\ requests' = CreateSearchRequest(requests, now)
    /\ UNCHANGED <<now, wins, orch, ext, sub, sched, scrape, http, db, txn, pool, polling_active>>

\* The clock: up to h hours pass, and a running scheduler's job fires when
\* its time comes.
Tick(h) ==
    /\ now + h <= MaxTime
    /\ ~(sched.running /\ sched.next_run = now)
    /\ now' = IF sched.running /\ now < sched.next_run
                 /\ sched.next_run < now + h
              THEN sched.next_run
              ELSE now + h
    /\ UNCHANGED <<requests, wins, orch, ext, sub, sched, scrape, http, db, txn, pool, polling_active>>

----------------------------------------------------------------------------
\* routes/submissions.py, routes/search.py

\* No request has been answered.  A response: its route, its status code,
\* its fixed text, and the str(e) put into its body (NONE when none is).
NoResponse == [route |-> NONE, code |-> 0, text |-> NONE, exc |-> NONE]

SubmitReceivedMsg == "Your submission has been received"
SubmitFailedMsg == "Failed to process submission"
SearchQueuedMsg == "Search queued for background processing"
SearchFailedMsg == "Search failed"

\* datetime.strptime(request.date, "%Y-%m-%d") on a date of another format.
StrptimeError == "time data does not match format"

\* submit_win: create_submission has returned the row or raised ValueError.
SubmitWinRespond ==
    /\ sub["user"].pc = "idle"
    /\ sub["user"].at # NONE
    /\ http' = IF sub["user"].raised = NONE
               THEN [route |-> "submit", code |-> 200, text |-> SubmitReceivedMsg,
                     exc |-> NONE]
               ELSE [route |-> "submit", code |-> 400, text |-> NONE,
                     exc |-> sub["user"].raised]
    /\ sub' = [sub EXCEPT !["user"] = IdleSub]
    /\ UNCHANGED <<now, requests, wins, orch, ext, sched, scrape, db, txn, pool, polling_active>>

\* submit_win: a query or the commit of create_submission raises an error
\* that is no ValueError; create_submission rolls back and re-raises.
SubmitWinUnexpected ==
    /\ sub["user"].pc \in {"scrape", "commit"}
    /\ \E e \in InternalErrors :
         http' = [route |-> "submit", code |-> 500, text |-> SubmitFailedMsg,
                  exc |-> NONE]
    /\ sub' = [sub EXCEPT !["user"] = IdleSub]
    /\ UNCHANGED <<now, requests, wins, orch, ext, sched, scrape, db, txn, pool, polling_active>>

\* search_wins, the whole handler: the request is queued, or the date does
\* not parse, or create_search_request raises.
SearchWinsRespond ==
    /\ \/ /\ Len(requests) < MaxRequests
          /\ requests' = CreateSearchRequest(requests, now)
          /\ http' = [route |-> "search", code |-> 200, text |-> SearchQueuedMsg,
                      exc |-> NONE]
       \/ /\ \E e \in InternalErrors \cup {StrptimeError} :
               http' = [route |-> "search", code |-> 200, text |-> SearchFailedMsg,
                        exc |-> e]
          /\ UNCHANGED requests
    /\ UNCHANGED <<now, wins, orch, ext, sub, sched, scrape, db, txn, pool, polling_active>>


\* The session of the sweep, of the firing of the search job and of the
\* scrape worker: "none" (db = None), "open", "closed".
NoSessions == [w \in {"sweep", "job", "worker"} |-> "none"]

\* No transaction has seen an external call.
NoCalls == [w \in {"sweep", "worker"} |-> 0]

Init ==
    /\ now = 0
    /\ polling_active = TRUE
    /\ requests = <<>>
    /\ wins = [u \in Urls |-> <<>>]
    /\ orch = IdleOrch
    /\ ext = [created |-> <<>>]
    /\ sub = [p \in Submitters |-> IdleSub]
    /\ sched = [running |-> FALSE, next_run |-> NULL, started_at |-> NULL]
    /\ scrape = IdleScrape
    /\ http = NoResponse
    /\ db = NoSessions
    /\ txn = NoCalls
    /\ pool = IdlePool

\* The pass of a sweep over the processing requests.
PollPass(n) ==
    \/ SweepBegin
    \/ ListProcessing
    \/ PollRequest(n)
    \/ ProcessResearchResults
    \/ SaveWinsCheck
    \/ SaveWinsCommit
    \/ CompleteRequest
    \/ SweepEnd

\* The whole sweep: the claim of a pending request, then the pass.
Orchestrator(n) ==
    \/ CreateBackgroundTask
    \/ CommitClaim
    \/ PollPass(n)

\* A request that a sweep has claimed for the task with handle 1.
ClaimedRequest(t) == ClaimWrite(<<NewSearchRequest(t)>>, 1, 1)

\* The polling thread with requests queued over time.
Next ==
    \/ Orchestrator(MaxSweepBatch)
    \/ SearchWins
    \/ Tick(TickHours)

Spec == Init /\ [][Next]_vars

\* Two requests queued at time 0, the polling thread asleep.
InitQueue ==
    /\ now = 0
    /\ polling_active = TRUE
    /\ requests = CreateSearchRequest(CreateSearchRequest(<<>>, 0), 0)
    /\ wins = [u \in Urls |-> <<>>]
    /\ orch = IdleOrch
    /\ ext = [created |-> <<>>]
    /\ sub = [p \in Submitters |-> IdleSub]
    /\ sched = [running |-> FALSE, next_run |-> NULL, started_at |-> NULL]
    /\ scrape = IdleScrape
    /\ http = NoResponse
    /\ db = NoSessions
    /\ txn = NoCalls
    /\ pool = IdlePool

\* The polling thread over a queue that no route adds to, and the clock.
NextQueue ==
    \/ Orchestrator(MaxSweepBatch)
    \/ Tick(TickHours)

SpecQueue == InitQueue /\ [][NextQueue]_vars

\* The polling thread is scheduled and its calls return: while
\* polling_active, each sleep is followed by a sweep.
FairSweeps == SpecQueue /\ WF_vars(Orchestrator(MaxSweepBatch))

\* The polling thread runs and the clock advances.
FairClock == FairSweeps /\ WF_vars(Tick(TickHours))

\* The polling thread runs and create_background_task does not fail for
\* ever.
FairClaims ==
    FairSweeps /\ SF_vars(CreateBackgroundTask /\ orch'.pc = "commit_claim")

\* The polling thread until the application shuts down.
NextLife ==
    \/ Orchestrator(MaxSweepBatch)
    \/ Shutdown
    \/ LoopExit
    \/ InterpreterExit

SpecLife == InitQueue /\ [][NextLife]_vars

\* One claimed request, with submitters writing the same table.
InitStore ==
    /\ now = 0
    /\ polling_active = TRUE
    /\ requests = ClaimedRequest(0)
    /\ wins = [u \in Urls |-> <<>>]
    /\ orch = IdleOrch
    /\ ext = [created |-> <<1>>]
    /\ sub = [p \in Submitters |-> IdleSub]
    /\ sched = [running |-> FALSE, next_run |-> NULL, started_at |-> NULL]
    /\ scrape = IdleScrape
    /\ http = NoResponse
    /\ db = NoSessions
    /\ txn = NoCalls
    /\ pool = IdlePool

NextStore ==
    \/ PollPass(MaxSweepBatch)
    \/ \E p \in Submitters, url \in Urls : SubmitPrecheck(p, url)
    \/ \E p \in Submitters : SubmitScrape(p)
    \/ \E p \in Submitters : SubmitCommit(p)

SpecStore == InitStore /\ [][NextStore]_vars

\* One claimed request whose answer has up to MaxBatch items, over a table
\* that holds earlier submissions, with one submitter at work.
InitIngest ==
    /\ now = 0
    /\ polling_active = TRUE
    /\ requests = ClaimedRequest(0)
    /\ wins \in [Urls -> {<<>>} \cup {<<NewSubmission(u, "user")>> : u \in Urls}]
    /\ \A u \in Urls : \A k \in 1..Len(wins[u]) : wins[u][k].url = u
    /\ orch = IdleOrch
    /\ ext = [created |-> <<1>>]
    /\ sub = [p \in Submitters |-> IdleSub]
    /\ sched = [running |-> FALSE, next_run |-> NULL, started_at |-> NULL]
    /\ scrape = IdleScrape
    /\ http = NoResponse
    /\ db = NoSessions
    /\ txn = NoCalls
    /\ pool = IdlePool

NextIngest ==
    \/ PollPass(MaxBatch)
    \/ \E url \in Urls : SubmitPrecheck("user", url)
    \/ SubmitScrape("user")
    \/ SubmitCommit("user")

SpecIngest == InitIngest /\ [][NextIngest]_vars

\* One claimed request whose ingestion may raise any exception.
NextErrors ==
    \/ PollPass(MaxBatch)
    \/ \E text \in OtherErrorTexts : IngestRaises(text)
    \/ Tick(TickHours)

SpecErrors == InitIngest /\ [][NextErrors]_vars

\* One claimed request whose answer has one item more, over a table that
\* holds earlier submissions, with nothing else at work.
NextAnswer ==
    PollPass(MaxBatch + 1)

SpecAnswer == InitIngest /\ [][NextAnswer]_vars

\* One source run over a table that holds earlier submissions, with a user
\* submitting urls at the same time.
InitScrape ==
    /\ now = 0
    /\ polling_active = TRUE
    /\ requests = <<>>
    /\ wins \in [Urls -> {<<>>} \cup {<<NewSubmission(u, "user")>> : u \in Urls}]
    /\ \A u \in Urls : \A k \in 1..Len(wins[u]) : wins[u][k].url = u
    /\ orch = IdleOrch
    /\ ext = [created |-> <<>>]
    /\ sub = [p \in Submitters |-> IdleSub]
    /\ sched = [running |-> FALSE, next_run |-> NULL, started_at |-> NULL]
    /\ scrape = IdleScrape
    /\ http = NoResponse
    /\ db = NoSessions
    /\ txn = NoCalls
    /\ pool = IdlePool

NextScrape ==
    \/ RunScrapeForSource
    \/ \E url \in Urls : SubmitPrecheck("user", url)
    \/ SubmitScrape("user")
    \/ SubmitCommit("user")

SpecScrape == InitScrape /\ [][NextScrape]_vars

\* The ingester, the create_submission calls of the scrape runs, and the
\* moderators, over one table.
NextModerate ==
    \/ PollPass(MaxSweepBatch)
    \/ \E url \in Urls : SubmitPrecheck("AutoScraper", url)
    \/ SubmitScrape("AutoScraper")
    \/ SubmitCommit("AutoScraper")
    \/ \E url \in Urls, k \in 1..MaxBatch, status \in {"approved", "rejected"} :
         ReviewSubmission(url, k, status)

SpecModerate == InitStore /\ [][NextModerate]_vars

\* The synchronous routes.
NextRoutes ==
    \/ \E url \in Urls : sub["user"].at = NONE /\ SubmitPrecheck("user", url)
    \/ SubmitScrape("user")
    \/ SubmitCommit("user")
    \/ SubmitWinRespond
    \/ SubmitWinUnexpected
    \/ SearchWinsRespond

SpecRoutes == InitScrape /\ [][NextRoutes]_vars

\* The polling thread, the search job and a scrape worker, each with its
\* session, from the hour at which the first firing of a scheduler started
\* over an empty table is due.
InitSessions ==
    /\ now = NextRunTime(<<>>, 0)
    /\ polling_active = TRUE
    /\ requests = <<>>
    /\ wins = [u \in Urls |-> <<>>]
    /\ orch = IdleOrch
    /\ ext = [created |-> <<>>]
    /\ sub = [p \in Submitters |-> IdleSub]
    /\ sched = [running |-> TRUE, next_run |-> NextRunTime(<<>>, 0), started_at |-> 0]
    /\ scrape = IdleScrape
    /\ http = NoResponse
    /\ db = NoSessions
    /\ txn = NoCalls
    /\ pool = IdlePool

NextSessions ==
    \/ Orchestrator(MaxSweepBatch)
    \/ SweepAbort
    \/ RunScrapeForSource
    \/ ScheduledSearchJob

SpecSessions == InitSessions /\ [][NextSessions]_vars

\* The scheduler across restarts, with manual searches.
NextSched ==
    \/ StartScheduler
    \/ StopScheduler
    \/ ScheduledSearchJob
    \/ SearchWins
    \/ Tick(SchedTickHours)

SpecSched == Init /\ [][NextSched]_vars

----------------------------------------------------------------------------
\* Properties of the orchestrator (Spec).

Handled == {"extract", "save", "save_commit", "saved"}

\* C1: a request has a handle exactly when it has left pending (it is
\* processing, completed or failed), and the handle is that of a task
\* created for it; so no processing request is without a handle and no
\* pending request has one, also after a failed task creation or a failed
\* commit of the claim.
C1_HandleIffClaimed ==
    \A r \in 1..Len(requests) :
        /\ (requests[r].response_id # NULL) <=> (requests[r].status # "pending")
        /\ requests[r].response_id # NULL =>
              /\ requests[r].response_id \in 1..Len(ext.created)
              /\ ext.created[requests[r].response_id] = r

\* A task was created for a request whose claim was not committed, and the
\* request is still pending without a handle, while another is processing.
C1_Witness ==
    \E r, q \in 1..Len(requests) :
        /\ requests[r].status = "pending"
        /\ \E h \in 1..Len(ext.created) : ext.created[h] = r
        /\ requests[q].status = "processing"

\* C2: every change of a request's status is pending -> processing,
\* processing -> completed or processing -> failed, and a completed or
\* failed request keeps its status, new_wins_found and error_message.
C2_Transitions ==
    [][\A r \in 1..Len(requests) :
         LET a == requests[r]
             b == requests'[r]
         IN  /\ a.status # b.status =>
                  <<a.status, b.status>> \in
                     {<<"pending", "processing">>,
                      <<"processing", "completed">>,
                      <<"processing", "failed">>}
             /\ a.status \in {"completed", "failed"} =>
                  /\ b.status = a.status
                  /\ b.new_wins_found = a.new_wins_found
                  /\ b.error_message = a.error_message]_vars

\* A later sweep is under way over a completed and a failed request.
C2_Witness ==
    /\ orch.pc = "loop"
    /\ \E r, q \in 1..Len(requests) :
         /\ requests[r].status = "completed"
         /\ requests[q].status = "failed"

\* C5: a sweep lists every processing request, and when it comes to one
\* that is older than the bound it marks it failed with the timeout message
\* and goes on to the next, without a poll and without touching the wins,
\* whatever the task's state.
C5_Timeout ==
    [][/\ (orch.pc = "list" /\ orch'.pc = "loop") =>
            \A r \in 1..Len(requests) :
                requests[r].status = "processing" =>
                    \E k \in 1..Len(orch'.processing) : orch'.processing[k] = r
       /\ (/\ orch.pc = "loop"
           /\ orch.processing # <<>>
           /\ orch' # orch
           /\ now - requests[Head(orch.processing)].created_at > StuckTaskHours)
          => LET r == Head(orch.processing)
             IN  /\ requests'[r].status = "failed"
                 /\ requests'[r].error_message = TimeoutMsg
                 /\ orch'.pc = "loop"
                 /\ orch'.processing = Tail(orch.processing)
                 /\ orch'.polled = NULL
                 /\ wins' = wins]_vars

\* A request has been failed by the timeout, unpolled, in this sweep.
C5_Witness ==
    /\ orch.pc = "loop"
    /\ orch.polled = NULL
    /\ \E r \in 1..Len(requests) :
         /\ requests[r].status = "failed"
         /\ requests[r].error_message = TimeoutMsg
         /\ now - requests[r].created_at > StuckTaskHours
         /\ \A k \in 1..Len(orch.processing) : orch.processing[k] # r

----------------------------------------------------------------------------
\* Properties of the shared table (SpecStore).

\* C3: no url is held by two rows of union_wins, however the ingester and
\* the submitters interleave.
C3_UniqueUrl ==
    \A u \in Urls :
        /\ Len(wins[u]) <= 1
        /\ \A k \in 1..Len(wins[u]) : wins[u][k].url = u

\* The ingester and a submitter raced for a url: the ingester's row is the
\* one in the table and the submitter lost at its commit.
C3_Witness ==
    \E p \in Submitters :
        /\ sub[p].at = "commit"
        /\ sub[p].raised = CommitDuplicateError
        /\ Len(wins[sub[p].url]) = 1
        /\ wins[sub[p].url][1].submitted_by = NONE

\* A call of create_submission by p returns in this step.
Returns(p) == sub'[p] # sub[p] /\ sub'[p].pc = "idle"

\* C4 as stated: when a call of create_submission returns without having
\* created the row, while another call of create_submission has created the
\* row for its url, it reports the duplicate error.
C4_SecondAlwaysDuplicate ==
    [][\A p \in Submitters :
         (/\ Returns(p)
          /\ sub'[p].raised # NONE
          /\ \E k \in 1..Len(wins'[sub'[p].url]) :
                wins'[sub'[p].url][k].submitted_by \in Submitters)
         => sub'[p].raised = PrecheckDuplicateError]_vars

\* C4 amended: at most one row per url ever exists; a call that returns the
\* row has created the only one; a call that starts when the row exists, or
\* that loses the race at its commit, reports the one duplicate error and
\* leaves the table alone; a call whose extraction fails reports the
\* extraction error, whether or not the row exists by then.
C4_DuplicateOrExtractError ==
    [][\A p \in Submitters :
         LET u == sub'[p].url
         IN  /\ (sub[p].pc = "idle" /\ sub'[p] # sub[p] /\ UrlExists(wins, u)) =>
                  Returns(p)
             /\ Returns(p) =>
                  /\ Len(wins'[u]) <= 1
                  /\ sub'[p].raised = NONE =>
                        /\ wins[u] = <<>>
                        /\ wins'[u] = <<NewSubmission(u, p)>>
                  /\ sub'[p].raised # NONE => wins' = wins
                  /\ sub'[p].at \in {"precheck", "commit"} /\ sub'[p].raised # NONE =>
                        /\ sub'[p].raised = "This URL has already been submitted"
                        /\ Len(wins[u]) = 1
                  /\ sub'[p].at = "scrape" =>
                        sub'[p].raised = "Failed to extract information from URL"]_vars

\* Two calls passed the pre-check for one url: one created the row, the
\* other lost at its commit and reported the duplicate.
C4_Witness ==
    \E p, q \in Submitters :
        /\ p # q
        /\ sub[p].url = sub[q].url
        /\ sub[p].pc = "idle" /\ sub[p].at = "commit" /\ sub[p].raised = NONE
        /\ sub[q].pc = "idle" /\ sub[q].at = "commit"
        /\ sub[q].raised = PrecheckDuplicateError
        /\ wins[sub[p].url] = <<NewSubmission(sub[p].url, p)>>

\* C9 as stated: every row added to union_wins, by the ingester or by a
\* submission, is pending and is not in the public feed.
C9_CreatedPending ==
    [][\A u \in Urls :
         Len(wins'[u]) > Len(wins[u]) =>
            LET row == wins'[u][Len(wins'[u])]
            IN  /\ row.status = "pending"
                /\ row \notin GetAllWins(wins')]_vars

----------------------------------------------------------------------------
\* Properties of the ingester (SpecIngest).

\* The items of a batch that have the four fields.
ValidItems(d) ==
    {i \in 1..Len(d) : {"title", "date", "url", "summary"} \subseteq d[i].keys}

\* The valid items that duplicate a url of the store: one the table held
\* when save_wins_to_db began, one of an earlier item of the batch, or one
\* a submitter has inserted in the meantime.
DuplicateItems(d, existing, table) ==
    {i \in ValidItems(d) :
        \/ d[i].url \in existing
        \/ \E j \in ValidItems(d) : j < i /\ d[j].url = d[i].url
        \/ \E k \in 1..Len(table[d[i].url]) :
              table[d[i].url][k].submitted_by \in Submitters}

\* The rows the ingester has added.
IngestedUrls(existing, table) ==
    {u \in Urls \ existing :
        \E k \in 1..Len(table[u]) : table[u][k].submitted_by = NONE}

\* C6: when save_wins_to_db returns, with N the valid items of the batch
\* and k those of them that duplicate urls of the store, it has inserted
\* N - k rows and returns N - k; a duplicate does not end the batch.
C6_BatchResilience ==
    orch.pc = "saved" =>
        LET N == Cardinality(ValidItems(orch.wins_data))
            k == Cardinality(DuplicateItems(orch.wins_data, orch.existing, wins))
        IN  /\ orch.i = Len(orch.wins_data) + 1
            /\ orch.new_wins_count = N - k
            /\ Cardinality(IngestedUrls(orch.existing, wins)) = N - k

\* A batch of a duplicate of a stored url followed by a new url: the new
\* one was inserted and counted.
C6_Witness ==
    /\ orch.pc = "saved"
    /\ Len(orch.wins_data) = 2
    /\ ValidItems(orch.wins_data) = {1, 2}
    /\ orch.wins_data[1].url \in orch.existing
    /\ orch.wins_data[2].url \notin orch.existing
    /\ orch.new_wins_count = 1
    /\ IngestedUrls(orch.existing, wins) = {orch.wins_data[2].url}

----------------------------------------------------------------------------
\* Properties of the scheduler (SpecSched).

\* start_scheduler runs in this step.
Starts == ~sched.running /\ sched'.running

\* The search job fires in this step.
Fires == sched.running /\ sched'.running /\ sched' # sched

Max(a, b) == IF a >= b THEN a ELSE b

\* C7 as stated: started at now with the last request created at T, the
\* first run is at max(T + 12h, now + 12h); at now + 12h without requests.
C7_MaxRestart ==
    [][Starts =>
         sched'.next_run =
            IF Len(requests) > 0
            THEN Max(LastCreatedAt(requests) + SearchIntervalHours,
                     now + SearchIntervalHours)
            ELSE now + SearchIntervalHours]_vars

\* C7 amended: the first run is at T + 12h when that is later than now, and
\* at now + 12h otherwise or without requests; so it is later than now and
\* at least 12h after the last request.
C7_Restart ==
    [][Starts =>
         /\ sched'.next_run =
               IF Len(requests) > 0
                  /\ LastCreatedAt(requests) + SearchIntervalHours > now
               THEN LastCreatedAt(requests) + SearchIntervalHours
               ELSE now + SearchIntervalHours
         /\ sched'.next_run > now
         /\ \A r \in 1..Len(requests) :
               sched'.next_run >= requests[r].created_at + SearchIntervalHours]_vars

\* The scheduler was started less than 12h after the last request: the
\* first run is 12h after that request, less than 12h after the start.
C7_Witness ==
    /\ sched.running
    /\ Len(requests) > 0
    /\ \A r \in 1..Len(requests) : requests[r].created_at < sched.started_at
    /\ sched.next_run = LastCreatedAt(requests) + SearchIntervalHours
    /\ sched.next_run < sched.started_at + SearchIntervalHours

\* C8 as stated: the job fires later than the start of the scheduler and
\* not before 12h after the most recent request, whoever queued it.
C8_NeverEarly ==
    [][Fires =>
         /\ now > sched.started_at
         /\ \A r \in 1..Len(requests) :
               now >= requests[r].created_at + SearchIntervalHours]_vars

\* C8 amended: the job fires later than the start of the scheduler, not
\* before 12h after any request queued before that start, and next 12h
\* after this firing; a request queued by search_wins after the start does
\* not put a firing off.
C8_NeverEarlyAfterStart ==
    [][/\ Fires =>
            /\ now > sched.started_at
            /\ \A r \in 1..Len(requests) :
                  requests[r].created_at < sched.started_at =>
                     now >= requests[r].created_at + SearchIntervalHours
            /\ sched'.next_run = now + SearchIntervalHours
       /\ (sched.running /\ requests' # requests /\ ~Fires) => sched' = sched]_vars

\* The job has fired after a restart that found an earlier request.
C8_Witness ==
    /\ sched.running
    /\ now > sched.started_at
    /\ sched.next_run = now + SearchIntervalHours
    /\ \E r, q \in 1..Len(requests) :
         /\ requests[r].created_at < sched.started_at
         /\ requests[q].created_at = now

----------------------------------------------------------------------------
\* Properties of the claim step (Spec).

\* C11: a step writes a request's handle exactly when it writes its status
\* processing; a failed create_background_task changes neither the table
\* nor the research API's tasks; a pending request is as it was created, with
\* no mark of the attempts made; and a sweep that finds pending requests
\* always tries one of them.
C11_ClaimAtomicRetry ==
    [][/\ \A r \in 1..Len(requests) :
            (requests'[r].response_id # requests[r].response_id)
               <=> (requests[r].status = "pending"
                    /\ requests'[r].status = "processing")
       /\ (orch.pc = "create" /\ orch'.pc = "list") =>
            /\ requests' = requests
            /\ ext' = ext
            /\ requests[orch.pending] = NewSearchRequest(requests[orch.pending].created_at)
       /\ \A r \in 1..Len(requests') :
            requests'[r].status = "pending" =>
               requests'[r] = NewSearchRequest(requests'[r].created_at)
       /\ (orch.pc = "sleep" /\ orch'.pc # "sleep") =>
            IF \E r \in 1..Len(requests) : requests[r].status = "pending"
            THEN /\ orch'.pc = "create"
                 /\ requests[orch'.pending].status = "pending"
            ELSE orch'.pc = "list"]_vars

\* create_background_task has just failed for a request queued earlier: it
\* is pending as created, and no task exists for it.
C11_Witness ==
    /\ orch.pc = "list"
    /\ orch.pending # NULL
    /\ orch.response_id = NULL
    /\ requests[orch.pending] = NewSearchRequest(requests[orch.pending].created_at)
    /\ \A h \in 1..Len(ext.created) : ext.created[h] # orch.pending
    /\ now > requests[orch.pending].created_at

\* C12 as stated: the request a sweep picks to claim, and the request it
\* claims, is the oldest pending one: no pending request has an earlier
\* created_at.
C12_ClaimsOldest ==
    [][/\ (orch.pc = "sleep" /\ orch'.pc = "create") =>
            \A r \in 1..Len(requests) :
                requests[r].status = "pending" =>
                    requests[orch'.pending].created_at <= requests[r].created_at
       /\ \A p \in 1..Len(requests) :
            (requests[p].status = "pending" /\ requests'[p].status = "processing") =>
                \A r \in 1..Len(requests) :
                    requests[r].status = "pending" =>
                        requests[p].created_at <= requests[r].created_at]_vars

\* C13: a task is created only by the one create step that a sweep has
\* right after its start, and a request turns processing only in the commit
\* that follows it, one request at most, however many are pending; the poll
\* pass comes after, and lists the request just claimed.
C13_OneClaimPerSweep ==
    [][/\ (orch'.pc = "create" /\ orch.pc # "create") => orch.pc = "sleep"
       /\ (orch'.pc = "commit_claim" /\ orch.pc # "commit_claim") => orch.pc = "create"
       /\ ext' # ext =>
            /\ orch.pc = "create" /\ orch'.pc = "commit_claim"
            /\ ext'.created = Append(ext.created, orch.pending)
       /\ \A r \in 1..Len(requests) :
            (requests[r].status = "pending" /\ requests'[r].status = "processing") =>
               /\ orch.pc = "commit_claim" /\ orch'.pc = "list"
               /\ r = orch.pending
       /\ (orch'.polled # NULL /\ orch'.polled # orch.polled) =>
            orch.pc = "loop"
       /\ (orch.pc = "list" /\ orch'.pc = "loop") =>
            /\ orch'.polled = NULL
            /\ (orch.response_id # NULL
                /\ requests[orch.pending].response_id = orch.response_id) =>
                  \E k \in 1..Len(orch'.processing) :
                      orch'.processing[k] = orch.pending]_vars

\* A sweep has claimed one of two pending requests and is about to list the
\* processing requests; the other is still pending and has no task.
C13_Witness ==
    /\ orch.pc = "list"
    /\ orch.pending # NULL
    /\ requests[orch.pending].status = "processing"
    /\ requests[orch.pending].response_id = orch.response_id
    /\ \E q \in 1..Len(requests) :
         /\ requests[q].status = "pending"
         /\ \A h \in 1..Len(ext.created) : ext.created[h] # q

----------------------------------------------------------------------------
\* Scenario A (SpecAnswer).

\* The answer of scenario A: three items, two with the four fields and one
\* without summary.
ScenarioAnswer(d) ==
    /\ Len(d) = 3
    /\ \A i \in 1..3 : d[i].dict
    /\ Cardinality({i \in 1..3 : d[i].keys = {"title", "date", "url", "summary"}}) = 2
    /\ Cardinality({i \in 1..3 : d[i].keys = {"title", "date", "url"}}) = 1

\* The urls of the items that have the four fields.
ValidUrls(d) ==
    {d[i].url : i \in {j \in 1..Len(d) : d[j].keys = {"title", "date", "url", "summary"}}}

\* C14 as stated: save_wins_to_db has gone through the answer of scenario
\* A; the request becomes completed with new_wins_found 1, one row inserted.
C14_ScenarioOneInserted ==
    [][(orch.pc = "saved" /\ orch'.pc # "saved" /\ ScenarioAnswer(orch.wins_data)) =>
         /\ requests'[Head(orch.processing)].status = "completed"
         /\ requests'[Head(orch.processing)].new_wins_found = 1
         /\ Cardinality(IngestedUrls(orch.existing, wins')) = 1]_vars

\* C14 amended: the request becomes completed, the item without summary is
\* skipped, and new_wins_found is the number of rows inserted, one for each
\* url of the two valid items that the table did not hold: 2 when the two
\* urls differ and are new.
C14_ScenarioA ==
    [][(orch.pc = "saved" /\ orch'.pc # "saved" /\ ScenarioAnswer(orch.wins_data)) =>
         LET r == Head(orch.processing)
             new == ValidUrls(orch.wins_data) \ orch.existing
         IN  /\ requests'[r].status = "completed"
             /\ requests'[r].new_wins_found = Cardinality(new)
             /\ IngestedUrls(orch.existing, wins') = new
             /\ StoredUrls(wins') = orch.existing \cup new
             /\ (Cardinality(ValidUrls(orch.wins_data)) = 2
                 /\ ValidUrls(orch.wins_data) \cap orch.existing = {}) =>
                   requests'[r].new_wins_found = 2]_vars

\* save_wins_to_db has gone through the answer of scenario A with two new
\* urls: two rows inserted and counted.
C14_Witness ==
    /\ orch.pc = "saved"
    /\ ScenarioAnswer(orch.wins_data)
    /\ orch.existing = {}
    /\ orch.new_wins_count = 2
    /\ Cardinality(StoredUrls(wins)) = 2

----------------------------------------------------------------------------
\* The result of a source run (SpecScrape).

\* The elements of a sequence.
Range(q) == {q[k] : k \in 1..Len(q)}

\* The urls whose row the scraper's submissions created.
ScrapedUrls(table) ==
    {u \in Urls : \E k \in 1..Len(table[u]) : table[u][k].submitted_by = "AutoScraper"}

\* The four counts of a per-source result.
CountKeys == {"raw_links_found", "new_links_checked", "wins_identified", "wins_submitted"}

----------------------------------------------------------------------------
\* The repair of a malformed answer (SpecIngest).

\* C16: one extraction calls the repairer at most once, and only after
\* json.loads has refused the text; when the repaired text does not parse
\* either, or the repair call raises, the error of the first json.loads is
\* what the request is marked failed with, and the failed request is not
\* touched again.
C16_OneRepair ==
    [][/\ (orch.pc = "extract" /\ orch' # orch) =>
            LET o == orch.output_text
                x == ExtractJsonFromResponse(o)
                r == Head(orch.processing)
                fixes == {k \in 1..Len(x.calls) : x.calls[k] = "fix"}
            IN  /\ Cardinality(fixes) <= 1
                /\ Cardinality(fixes) = 1 <=> ~o.strict
                /\ \A k \in fixes : k = 2 /\ x.calls[1] = "loads"
                /\ (~o.strict /\ o.fix \in {"bad", "raise"}) =>
                     /\ requests'[r].status = "failed"
                     /\ requests'[r].error_message = ParseError
                     /\ orch'.pc # "extract"
                     /\ wins' = wins
                /\ (o.strict \/ o.fix = "ok") =>
                     /\ requests' = requests
                     /\ orch'.wins_data = o.items
       /\ \A r \in 1..Len(requests) :
            requests[r].status = "failed" => requests'[r] = requests[r]]_vars

\* A request has been marked failed with the parse error of its answer,
\* and the sweep has gone on.
C16_Witness ==
    /\ requests[1].status = "failed"
    /\ requests[1].error_message = ParseError
    /\ orch.pc \notin {"extract", "save", "save_commit", "saved"}

----------------------------------------------------------------------------
\* Ingestion against moderation (SpecModerate).

\* C17: a step of save_wins_to_db or of create_submission deletes no row
\* of union_wins and changes no field of one, whatever the status of the
\* row: the rows of a url that has one stay as they are and none is added,
\* and a url without a row gains at most the one new row.
C17_IngestionKeepsRows ==
    [][(orch' # orch \/ sub' # sub) =>
         \A u \in Urls :
            IF wins[u] # <<>>
            THEN wins'[u] = wins[u]
            ELSE Len(wins'[u]) <= 1]_vars

\* A submission has been refused as a duplicate of a url whose row a
\* moderator has rejected, and the ingester has skipped an item whose row
\* is approved.
C17_Witness ==
    /\ sub["AutoScraper"].raised = PrecheckDuplicateError
    /\ wins[sub["AutoScraper"].url] # <<>>
    /\ wins[sub["AutoScraper"].url][1].status = "rejected"
    /\ \E u \in Urls :
         /\ wins[u] # <<>>
         /\ wins[u][1].status = "approved"
         /\ wins[u][1].submitted_by = "AutoScraper"
         /\ orch.pc = "saved"
         /\ orch.wins_data # <<>>
         /\ orch.wins_data[1].url = u
         /\ orch.new_wins_count = 0

----------------------------------------------------------------------------
\* Tasks per request (Spec).

\* C18 as stated: whatever commit fails, no request has a second research
\* task created for it.
C18_OneTaskPerRequest ==
    \A r \in 1..Len(requests) :
       Cardinality({h \in 1..Len(ext.created) : ext.created[h] = r}) <= 1

----------------------------------------------------------------------------
\* What the routes answer (SpecRoutes).

\* C19 as stated: the body of a response of submit_win or search_wins
\* carries the text of no exception but the ValueError of a duplicate or of
\* a failed extraction.
C19_NoInternalText ==
    http.exc \in {NONE, PrecheckDuplicateError, CommitDuplicateError, ExtractFailedError}

----------------------------------------------------------------------------
\* Store sessions (SpecSessions).

\* C20: the polling thread holds a session exactly while a sweep is under
\* way, a new one for each sweep, closed before the sleep however the sweep
\* ends; the scrape worker holds its own from its start to its return,
\* closed on every return; a firing of the search job leaves its session
\* closed whether or not the request was queued; and the session of one
\* unit changes only in a step of that unit.
C20_SessionPerUnit ==
    [][/\ orch.pc = "sleep" => db.sweep # "open"
       /\ orch.pc # "sleep" => db.sweep = "open"
       /\ orch'.pc = "sleep" => db'.sweep # "open"
       /\ (orch.pc = "sleep" /\ orch'.pc # "sleep") => db'.sweep = "open"
       /\ scrape.pc \in {"classify", "submit"} <=> db.worker = "open"
       /\ scrape.pc = "idle" <=> db.worker = "none"
       /\ scrape'.pc = "done" <=> db'.worker = "closed"
       /\ db.job # "open" /\ db'.job # "open"
       /\ sched'.next_run # sched.next_run /\ sched.running => db'.job = "closed"
       /\ db'.sweep # db.sweep => (scrape' = scrape /\ sched' = sched)
       /\ db'.worker # db.worker => (orch' = orch /\ sched' = sched)
       /\ db'.job # db.job => (orch' = orch /\ scrape' = scrape)]_vars

\* The three units have ended, the sweep and the worker through an
\* exception: every session is closed.
C20_Witness ==
    /\ db = [w \in {"sweep", "job", "worker"} |-> "closed"]
    /\ orch.pc = "sleep"
    /\ scrape.pc = "done"
    /\ scrape.result.status = "error"
    /\ scrape.source.last_scrape_error \in InternalErrors
    /\ \E r \in 1..Len(requests) : requests[r].status = "processing"

----------------------------------------------------------------------------
\* External calls per transaction (SpecSessions).

\* C21 as stated: no transaction of a sweep or of a source run contains
\* more than one external call.
C21_OneCallPerTransaction ==
    \A w \in {"sweep", "worker"} : txn[w] <= 1

\* One scrape sweep over sources of which some were scraped an hour ago,
\* while an administrator removes sources and puts them back.
InitSweep ==
    /\ now = 1
    /\ polling_active = TRUE
    /\ requests = <<>>
    /\ wins = [u \in Urls |-> <<>>]
    /\ orch = IdleOrch
    /\ ext = [created |-> <<>>]
    /\ sub = [p \in Submitters |-> IdleSub]
    /\ sched = [running |-> FALSE, next_run |-> NULL, started_at |-> NULL]
    /\ scrape = IdleScrape
    /\ http = NoResponse
    /\ db = NoSessions
    /\ txn = NoCalls
    /\ \E active \in [Sources -> {0, 1}],
          rows \in [Sources -> {NeverScraped,
                                [last_scraped_at |-> <<0>>,
                                 last_scrape_status |-> "success",
                                 last_scrape_error |-> NONE]}] :
         pool = [IdlePool EXCEPT !.active = active, !.rows = rows]

NextSweep ==
    \/ RunAllScrapes
    \/ \E sid \in Sources : DeleteSource(sid)
    \/ \E sid \in Sources : AddSource(sid)
    \/ \E sid \in Sources : WorkerFetch(sid)
    \/ \E sid \in Sources : WorkerPipeline(sid)
    \/ \E sid \in Sources : CollectResult(sid)
    \/ ReturnResults

SpecSweep == InitSweep /\ [][NextSweep]_vars

\* One source run from its classification on: the page had up to MaxLinks
\* links, first to last, none of them in the table.
InitClassify ==
    /\ now = 0
    /\ polling_active = TRUE
    /\ requests = <<>>
    /\ wins = [u \in 1..MaxLinks |-> <<>>]
    /\ orch = IdleOrch
    /\ ext = [created |-> <<>>]
    /\ sub = [p \in Submitters |-> IdleSub]
    /\ sched = [running |-> FALSE, next_run |-> NULL, started_at |-> NULL]
    /\ \E n \in 1..MaxLinks :
         scrape = [IdleScrape EXCEPT !.pc = "classify",
                                     !.candidates = [k \in 1..n |-> k],
                                     !.new_candidates = [k \in 1..n |-> k]]
    /\ http = NoResponse
    /\ db = [NoSessions EXCEPT !.worker = "open"]
    /\ txn = Called(NoCalls, "worker")
    /\ pool = IdlePool

NextClassify ==
    \/ ScrapeClassify
    \/ ScrapeSubmitCall
    \/ SubmitScrape("AutoScraper")
    \/ SubmitCommit("AutoScraper")
    \/ ScrapeSubmitReturn
    \/ ScrapeReport

SpecClassify == InitClassify /\ [][NextClassify]_vars

\* One source run whose extractor may return data without a field, with a
\* user submitting urls at the same time.
NextSubmit ==
    \/ RunScrapeForSource
    \/ SubmitKeyError("AutoScraper")
    \/ \E url \in Urls : SubmitPrecheck("user", url)
    \/ SubmitScrape("user")
    \/ SubmitCommit("user")

SpecSubmit == InitScrape /\ [][NextSubmit]_vars

\* The runs of one source, one after the other.
NextRuns ==
    \/ RunScrapeForSource
    \/ SubmitKeyError("AutoScraper")
    \/ RunScrape

SpecRuns == InitScrape /\ [][NextRuns]_vars

\* One scrape sweep over more active sources than the pool has threads;
\* every page is fetched and has no new link.
InitPool ==
    /\ now = 1
    /\ polling_active = TRUE
    /\ requests = <<>>
    /\ wins = [u \in Urls |-> <<>>]
    /\ orch = IdleOrch
    /\ ext = [created |-> <<>>]
    /\ sub = [p \in Submitters |-> IdleSub]
    /\ sched = [running |-> FALSE, next_run |-> NULL, started_at |-> NULL]
    /\ scrape = IdleScrape
    /\ http = NoResponse
    /\ db = NoSessions
    /\ txn = NoCalls
    /\ pool = [pc |-> "idle",
               active |-> [s \in 1..ManySources |-> 1],
               rows |-> [s \in 1..ManySources |-> NeverScraped],
               source_ids |-> <<>>,
               future |-> [s \in 1..ManySources |-> "none"],
               calls |-> [s \in 1..ManySources |-> <<>>],
               runs |-> [s \in 1..ManySources |-> 0],
               result |-> [s \in 1..ManySources |-> [status |-> NONE]],
               results |-> <<>>]

NextPool ==
    \/ RunAllScrapes
    \/ \E sid \in 1..ManySources :
         WorkerFetch(sid) /\ pool'.future[sid] = "fetched"
    \/ \E sid \in 1..ManySources :
         WorkerPipeline(sid) /\ pool'.calls[sid] = <<"fetch">>
                             /\ pool'.result[sid].status = "success"
    \/ \E sid \in 1..ManySources : CollectResult(sid)
    \/ ReturnResults

SpecPool == InitPool /\ [][NextPool]_vars

\* The threads of the pool are scheduled and every call of a worker returns.
FairPool == SpecPool /\ WF_vars(NextPool)

----------------------------------------------------------------------------
\* The branches of a poll (Spec).

\* A step of the loop at a request that has not timed out: the poll.
Polls ==
    /\ orch.pc = "loop"
    /\ orch.processing # <<>>
    /\ orch' # orch
    /\ ~IsStuck(now - requests[Head(orch.processing)].created_at)

\* The urls of the rows that the ingester created.
ResearchUrls(table) ==
    {u \in Urls : \E k \in 1..Len(table[u]) : table[u][k].submitted_by = NONE}

\* C22: a poll of a request that has not timed out either starts the
\* ingestion of a completed answer, or marks the request failed with the
\* message of a failed task, or leaves every row as it was, the request
\* still processing with its handle; and the list of the next sweep holds
\* every request that is processing, so that request is polled again.
C22_OtherStatusKeeps ==
    [][/\ Polls =>
            LET r == Head(orch.processing)
            IN  \/ /\ orch'.pc = "extract"
                   /\ requests' = requests
                \/ /\ orch'.pc = "loop"
                   /\ requests'[r].status = "failed"
                   /\ requests'[r].error_message = ExternalFailedMsg
                \/ /\ orch'.pc = "loop"
                   /\ orch'.processing = Tail(orch.processing)
                   /\ orch'.polled = requests[r].response_id
                   /\ requests' = requests
                   /\ requests'[r].status = "processing"
                   /\ requests'[r].error_message = NONE
                   /\ requests'[r].new_wins_found = 0
       /\ (orch.pc = "list" /\ orch'.pc = "loop") =>
            \A r \in 1..Len(requests) :
               requests[r].status = "processing" =>
                  \E k \in 1..Len(orch'.processing) : orch'.processing[k] = r]_vars

\* A request claimed twelve hours ago has just been polled once more and is
\* as its claim left it.
C22_Witness ==
    /\ orch.pc = "loop"
    /\ orch.polled # NULL
    /\ \E r \in 1..Len(requests) :
         /\ requests[r].response_id = orch.polled
         /\ requests[r].status = "processing"
         /\ requests[r] = [NewSearchRequest(requests[r].created_at) EXCEPT
                             !.status = "processing", !.response_id = orch.polled]
         /\ now - requests[r].created_at = StuckTaskHours
         /\ \A k \in 1..Len(orch.processing) : orch.processing[k] # r

\* C23: a poll that marks a request failed before its time limit writes the
\* message of a failed task and a count of zero, keeps the handle, moves on
\* to the next request without ingesting, and leaves the table of wins and
\* the other requests as they were.
C23_FailedTaskNotIngested ==
    [][(Polls /\ requests'[Head(orch.processing)].status = "failed") =>
          LET r == Head(orch.processing)
          IN  /\ requests' = [requests EXCEPT
                                ![r].status = "failed",
                                ![r].new_wins_found = 0,
                                ![r].error_message = ExternalFailedMsg]
              /\ orch'.pc = "loop"
              /\ orch'.processing = Tail(orch.processing)
              /\ wins' = wins]_vars

\* A request is failed with the message of a failed task and the ingester
\* has created no row.
C23_Witness ==
    /\ orch.pc = "loop"
    /\ orch.polled # NULL
    /\ \E r \in 1..Len(requests) :
         /\ requests[r].response_id = orch.polled
         /\ requests[r].status = "failed"
         /\ requests[r].error_message = ExternalFailedMsg
         /\ now - requests[r].created_at <= StuckTaskHours
    /\ ResearchUrls(wins) = {}

----------------------------------------------------------------------------
\* Items that lack a field (SpecIngest).

\* save_wins_to_db is at an item that is a JSON object and lacks a field.
AtInvalidItem ==
    /\ orch.pc = "save"
    /\ orch.i <= Len(orch.wins_data)
    /\ orch.wins_data[orch.i].dict
    /\ ~(RequiredFields \subseteq orch.wins_data[orch.i].keys)

\* The items before position i that have the four fields.
ValidBefore(d, i) == {j \in ValidItems(d) : j < i}

\* C24: save_wins_to_db passes an item that lacks one of title, date, url
\* and summary without touching the table, the count or the request, and
\* goes on with the next item; at every point of the batch the rows the
\* ingester has added carry urls of items that have the four fields, and
\* the count is at most the number of those items.
C24_InvalidItemSkipped ==
    [][/\ (AtInvalidItem /\ orch' # orch) =>
            /\ orch' = [orch EXCEPT !.i = @ + 1]
            /\ wins' = wins
            /\ requests' = requests
       /\ (orch'.pc \in {"save", "save_commit", "saved"}) =>
            /\ IngestedUrls(orch'.existing, wins') \subseteq
                  {orch'.wins_data[j].url :
                      j \in ValidBefore(orch'.wins_data, orch'.i)}
            /\ orch'.new_wins_count <=
                  Cardinality(ValidBefore(orch'.wins_data, orch'.i))]_vars

\* A batch of an item without summary followed by an item with the four
\* fields, both with urls new to the store: the second alone was inserted
\* and counted.
C24_Witness ==
    /\ orch.pc = "saved"
    /\ Len(orch.wins_data) = 2
    /\ ValidItems(orch.wins_data) = {2}
    /\ orch.wins_data[1].dict
    /\ orch.wins_data[1].url # orch.wins_data[2].url
    /\ wins[orch.wins_data[1].url] = <<>>
    /\ orch.existing = {}
    /\ orch.new_wins_count = 1
    /\ IngestedUrls(orch.existing, wins) = {orch.wins_data[2].url}

\* The commit of the item at hand meets a url that was inserted after the
\* item passed check_duplicate_win.
LostRace ==
    /\ orch.pc = "save_commit"
    /\ wins[orch.wins_data[orch.i].url] # <<>>

\* C25: the commit of an item whose url a concurrent writer has inserted
\* since the pre-check leaves the table as it is, rows of earlier items
\* included, leaves the count, and goes on with the next item; throughout
\* the batch the count equals the number of rows the call has committed,
\* and that number is written to the completed request.
C25_OnlyLosingInsertRolledBack ==
    [][/\ (LostRace /\ orch' # orch) =>
            /\ wins' = wins
            /\ orch' = [orch EXCEPT !.pc = "save", !.i = @ + 1]
       /\ (orch'.pc \in {"save", "save_commit", "saved"}) =>
            orch'.new_wins_count =
               Cardinality(IngestedUrls(orch'.existing, wins'))
       /\ (orch.pc = "saved" /\ orch' # orch) =>
            /\ requests'[Head(orch.processing)].status = "completed"
            /\ requests'[Head(orch.processing)].new_wins_found =
                  Cardinality(IngestedUrls(orch.existing, wins))]_vars

\* The first item of a batch was committed and counted; the second passed
\* its pre-check, a submitter has inserted its url since, and its commit is
\* about to fail.
C25_Witness ==
    /\ LostRace
    /\ orch.i = 2
    /\ orch.new_wins_count = 1
    /\ IngestedUrls(orch.existing, wins) = {orch.wins_data[1].url}
    /\ \E k \in 1..Len(wins[orch.wins_data[2].url]) :
          wins[orch.wins_data[2].url][k].submitted_by = "user"

----------------------------------------------------------------------------
\* A sweep over the sources (SpecSweep).

\* The worker of sid ends in this step at its fetch.
FetchFails(sid) ==
    /\ pool.future[sid] = "queued"
    /\ pool'.future[sid] = "done"

\* What the sweep holds of a source: its row, its worker, its calls, its
\* result.
OfSource(q, s) ==
    <<q.active[s], q.rows[s], q.future[s], q.calls[s], q.runs[s], q.result[s]>>

\* C26: a worker whose fetch fails ends in that step with the row of its
\* source at status error, with an error text and the time of the run, and
\* an error result, having called neither the classifier nor the
\* extractor; the step leaves every other source and the collected results
\* as they were, and the sweep returns only when every listed source has
\* its entry.
C26_FetchFailureEndsRun ==
    [][/\ \A sid \in Sources : FetchFails(sid) =>
            /\ pool'.rows[sid].last_scrape_status = "error"
            /\ pool'.rows[sid].last_scrape_error # NONE
            /\ pool'.rows[sid].last_scraped_at = <<now>>
            /\ pool'.result[sid].status = "error"
            /\ pool'.calls[sid] = <<"fetch">>
            /\ \A t \in Sources \ {sid} : OfSource(pool', t) = OfSource(pool, t)
            /\ pool'.results = pool.results
            /\ pool'.pc = "collect"
       /\ pool'.pc = "returned" =>
            \A k \in 1..Len(pool'.source_ids) :
               \E j \in 1..Len(pool'.results) :
                  pool'.results[j].source_id = pool'.source_ids[k]]_vars

\* A sweep over two sources has returned: the fetch of the first failed,
\* and the second, started after that, was classified and reported success.
C26_Witness ==
    /\ pool.pc = "returned"
    /\ pool.calls[1] = <<"fetch">>
    /\ pool.rows[1].last_scrape_status = "error"
    /\ pool.results[1].source_id = 1
    /\ pool.results[1].result.message = FetchFailedMsg
    /\ Len(pool.results) = 2
    /\ pool.results[2].result.status = "success"
    /\ pool.calls[2] = <<"fetch", "classify", "extract">>
    /\ pool.rows[2] = Scraped("success", NONE)

\* The source ids of the entries of a result list.
EntryIds(results) == {results[k].source_id : k \in 1..Len(results)}

\* C30: the sweep lists the sources that are active when it reads the
\* table, starts no worker for another source and at most one for a listed
\* one; when it returns, each listed source has had its one worker and has
\* exactly one entry in the result, whether its worker returned or raised.
C30_OneRunPerActiveSource ==
    [][/\ (pool.pc = "idle" /\ pool'.pc = "collect") =>
            /\ Range(pool'.source_ids) = {s \in Sources : pool.active[s] = 1}
            /\ Len(pool'.source_ids) = Cardinality(Range(pool'.source_ids))
       /\ \A s \in Sources :
            pool'.runs[s] <= (IF s \in Range(pool'.source_ids) THEN 1 ELSE 0)
       /\ pool'.pc = "returned" =>
            /\ \A s \in Range(pool'.source_ids) : pool'.runs[s] = 1
            /\ EntryIds(pool'.results) = Range(pool'.source_ids)
            /\ Len(pool'.results) = Len(pool'.source_ids)]_vars

\* A sweep has returned two entries, one of a worker that raised; the
\* source of the other has been removed since the list was read.
C30_Witness ==
    /\ pool.pc = "returned"
    /\ Len(pool.results) = 2
    /\ pool.future = [s \in Sources |-> "collected"]
    /\ \E s \in Sources : pool.result[s].status = "error"
                          /\ pool.calls[s] = <<>>
                          /\ pool.runs[s] = 1
    /\ \E s \in Sources : pool.active[s] = 0 /\ pool.result[s].status = "success"

----------------------------------------------------------------------------
\* The batches of the classifier (SpecClassify).

\* The number of batches of n candidates.
BatchCount(n) == (n + BatchSize - 1) \div BatchSize

\* The run is past its classification.
Classified == scrape.pc \in {"submit", "done"}

\* C27: the classifier is called once for each batch of at most 20
\* candidates, whether or not an earlier call raised; a batch whose call
\* raised contributes no candidate; and the run ends with status success.
C27_FailedBatchSkipped ==
    /\ scrape.pc = "classify" =>
          /\ Len(scrape.classifier) = scrape.b \div BatchSize
          /\ scrape.b < Len(scrape.new_candidates)
    /\ Classified =>
          /\ Len(scrape.classifier) = BatchCount(Len(scrape.new_candidates))
          /\ \A k \in 1..Len(scrape.classifier) :
                /\ Len(Batch(scrape.new_candidates, (k - 1) * BatchSize)) <= BatchSize
                /\ scrape.classifier[k] = "raised" =>
                      \A j \in 1..Len(scrape.likely_wins) :
                         scrape.likely_wins[j] \notin
                            Range(Batch(scrape.new_candidates, (k - 1) * BatchSize))
    /\ scrape.pc = "done" =>
          /\ scrape.source.last_scrape_status = "success"
          /\ scrape.source.last_scrape_error = NONE
          /\ scrape.result.status = "success"

\* A run over more than 20 new links has ended with status success: the
\* call for the first batch raised, the second batch was classified, and
\* its candidate was flagged and submitted.
C27_Witness ==
    /\ scrape.pc = "done"
    /\ Len(scrape.new_candidates) > BatchSize
    /\ scrape.classifier = <<"raised", "ok">>
    /\ scrape.likely_wins # <<>>
    /\ scrape.result.wins_submitted = 1
    /\ scrape.source.last_scrape_status = "success"

----------------------------------------------------------------------------
\* The submit loop (SpecSubmit).

\* create_submission returns to the loop in this step.
SubmitReturns ==
    /\ scrape.pc = "submit"
    /\ sub["AutoScraper"].at # NONE
    /\ sub'["AutoScraper"] = IdleSub

\* C28: whatever a create_submission call of the submit loop raised, a
\* duplicate error, an extraction failure or an exception that is no
\* ValueError, the loop goes on with the next candidate and counts the call
\* only if it returned a row; each call is made for the candidate at the
\* position of the loop; and the loop ends after the last candidate with
\* the status success.
C28_SubmitErrorsDoNotAbort ==
    [][/\ SubmitReturns =>
            scrape' = [scrape EXCEPT
                         !.i = @ + 1,
                         !.submitted_count =
                             IF sub["AutoScraper"].raised = NONE THEN @ + 1 ELSE @]
       /\ (sub["AutoScraper"].url = NULL /\ sub'["AutoScraper"].url # NULL) =>
            /\ scrape.pc = "submit"
            /\ scrape' = scrape
            /\ scrape.i <= Len(scrape.likely_wins)
            /\ sub'["AutoScraper"].url = scrape.likely_wins[scrape.i]
       /\ (scrape.pc = "submit" /\ scrape'.pc # "submit") =>
            /\ scrape.i = Len(scrape.likely_wins) + 1
            /\ scrape'.pc = "done"
            /\ scrape'.source.last_scrape_status = "success"
            /\ scrape'.source.last_scrape_error = NONE]_vars

\* A run over two flagged candidates has ended with status success: the
\* first was not inserted by anyone, the second was submitted.
C28_Witness ==
    /\ scrape.pc = "done"
    /\ scrape.source.last_scrape_status = "success"
    /\ Len(scrape.likely_wins) = 2
    /\ scrape.likely_wins[1] # scrape.likely_wins[2]
    /\ wins[scrape.likely_wins[1]] = <<>>
    /\ wins[scrape.likely_wins[2]] = <<NewSubmission(scrape.likely_wins[2], "AutoScraper")>>
    /\ scrape.result.wins_submitted = 1

----------------------------------------------------------------------------
\* The row of a source over its runs (SpecRuns).

\* C29: a source that no run has completed has the row of its creation;
\* once a run has completed, the row has the time of a run, the status
\* that the last completed run wrote, and either status success without
\* error text or status error with one.
C29_RowShape ==
    IF scrape.history = <<>>
    THEN scrape.source = NeverScraped
    ELSE /\ scrape.source.last_scraped_at # <<>>
         /\ scrape.source.last_scrape_status = scrape.history[Len(scrape.history)]
         /\ \/ /\ scrape.source.last_scrape_status = "success"
               /\ scrape.source.last_scrape_error = NONE
            \/ /\ scrape.source.last_scrape_status = "error"
               /\ scrape.source.last_scrape_error # NONE

\* A run that submitted a candidate has ended with status success after a
\* run of the same source that ended with an error.
C29_Witness ==
    /\ scrape.pc = "done"
    /\ scrape.history = <<"error", "success">>
    /\ scrape.source = Scraped("success", NONE)
    /\ CountKeys \subseteq DOMAIN scrape.result
    /\ scrape.result.wins_submitted = 1

----------------------------------------------------------------------------
\* The width of the pool (FairPool).

\* The sources whose pipeline is running.
InPipeline == {s \in DOMAIN pool.future : pool.future[s] = "fetched"}

\* The sources that wait for a thread.
Waiting == {s \in DOMAIN pool.future : pool.future[s] = "queued"}

\* C31: at most MaxWorkers pipelines of a sweep are running at any moment,
\* and every source that waits for a thread is started in the end, once.
C31_BoundedPool ==
    /\ [](Cardinality(InPipeline) <= MaxWorkers)
    /\ [](\A s \in DOMAIN pool.runs : pool.runs[s] <= 1)
    /\ \A s \in 1..ManySources :
          (s \in Waiting) ~> (s \notin Waiting /\ pool.runs[s] = 1)

\* The pool is full and a source waits for a thread.
C31_Witness ==
    /\ Cardinality(InPipeline) = MaxWorkers
    /\ Waiting # {}
    /\ Len(pool.source_ids) > MaxWorkers

----------------------------------------------------------------------------
\* The dedup of a source run (SpecScrape).

\* The urls that the run has handed to the classifier or to the extractor.
SentOut ==
    (IF scrape.classifier = <<>> THEN {}
     ELSE Range(SubSeq(scrape.new_candidates, 1,
                       IF scrape.pc = "classify" THEN scrape.b
                       ELSE Len(scrape.new_candidates))))
    \cup (IF sub["AutoScraper"].url = NULL THEN {}
          ELSE {sub["AutoScraper"].url})

\* C32: the step that extracts the links keeps exactly the candidates whose
\* url the table does not hold at that moment; afterwards only those are
\* handed to the classifier and to the extractor; and when none is kept the
\* run ends in that step with status success, without a call to either.
C32_DedupBeforeClassify ==
    [][/\ (scrape.pc = "idle" /\ scrape'.pc # "idle") =>
            /\ \A u \in Urls :
                  u \in Range(scrape'.new_candidates) <=>
                     (u \in Range(scrape'.candidates) /\ wins[u] = <<>>)
            /\ (scrape'.pc = "done" /\ scrape'.result.status = "success") =>
                  /\ scrape'.new_candidates = <<>>
                  /\ scrape'.classifier = <<>>
                  /\ sub'["AutoScraper"] = IdleSub
                  /\ txn'.worker = 0
                  /\ scrape'.source.last_scrape_status = "success"
            /\ (scrape'.pc = "classify") => scrape'.new_candidates # <<>>
       /\ (scrape.pc # "idle") =>
            /\ scrape'.new_candidates = scrape.new_candidates
            /\ Range(scrape'.likely_wins) \subseteq Range(scrape.new_candidates)
       /\ (scrape'.pc # "idle") =>
            (SentOut \subseteq Range(scrape.new_candidates))']_vars

\* A run over a page of two links of which the table held one has ended:
\* the other was classified, extracted and submitted.
C32_Witness ==
    /\ scrape.pc = "done"
    /\ Len(scrape.candidates) = 2
    /\ Len(scrape.new_candidates) = 1
    /\ scrape.classifier = <<"ok">>
    /\ scrape.likely_wins = scrape.new_candidates
    /\ wins[scrape.new_candidates[1]] =
          <<NewSubmission(scrape.new_candidates[1], "AutoScraper")>>

----------------------------------------------------------------------------
\* The loop of the polling thread (FairSweeps).

\* A step of the polling thread inside a sweep.
InSweep == orch.pc # "sleep" /\ orch' # orch

\* C33: whatever a claim, a poll or an ingestion raises, the step leaves the
\* polling thread inside its sweep with the requests it has not handled
\* yet; the sweep ends only after the last listed request; and sweep
\* follows sweep for ever.
C33_LoopSurvives ==
    /\ [][InSweep =>
            /\ orch'.pc \in {"create", "commit_claim", "list", "loop",
                             "extract", "save", "save_commit", "saved", "sleep"}
            /\ (orch.pc = "loop" /\ orch.processing # <<>>) =>
                  /\ orch'.pc # "sleep"
                  /\ orch'.processing \in {orch.processing, Tail(orch.processing)}
            /\ (orch.pc \in {"extract", "save", "save_commit", "saved"}) =>
                  /\ orch'.pc # "sleep"
                  /\ orch'.processing \in {orch.processing, Tail(orch.processing)}
                  /\ orch'.pc = "loop" <=> orch'.processing = Tail(orch.processing)
            /\ orch'.pc = "sleep" => orch.processing = <<>>]_vars
    /\ []<>(orch.pc = "sleep")
    /\ []<>(orch.pc = "list")

\* The ingestion of the answer of the first of two listed requests has
\* raised, the request is failed with the text of the exception, and the
\* sweep is at the second.
C33_Witness ==
    /\ orch.pc = "loop"
    /\ Len(orch.processing) = 1
    /\ \E r \in 1..Len(requests) :
         /\ r # orch.processing[1]
         /\ requests[r].status = "failed"
         /\ requests[r].error_message \in {ParseError, TypeErrorMsg, RepairError}
         /\ requests[r].response_id = orch.polled
    /\ requests[orch.processing[1]].status = "processing"

----------------------------------------------------------------------------
\* A request in a terminal state.
Settled(r) == requests[r].status \in {"completed", "failed"}

\* C34: with the polling thread running and the clock advancing, every
\* request in processing is completed or failed in the end, whatever the
\* polls of its task return or raise.
C34_ProcessingSettles ==
    \A r \in 1..2 :
        (r <= Len(requests) /\ requests[r].status = "processing") ~> Settled(r)

\* A request that the polls never settled has been failed by the stuck
\* check, after the other was completed.
C34_Witness ==
    \E r, q \in 1..Len(requests) :
        /\ requests[r].status = "failed"
        /\ requests[r].error_message = TimeoutMsg
        /\ requests[r].response_id # NULL
        /\ requests[q].status = "completed"
        /\ IsStuck(now - requests[r].created_at)

----------------------------------------------------------------------------
----------------------------------------------------------------------------
\* C36: a request that is not completed counts no new wins, whatever its
\* ingestion committed before it raised.
C36_CountOnlyWhenCompleted ==
    \A r \in 1..Len(requests) :
        requests[r].status # "completed" => requests[r].new_wins_found = 0

\* The ingestion committed a record of the answer and raised at a later
\* item: the request is failed, the record is stored, the count is 0.
C36_Witness ==
    /\ requests[1].status = "failed"
    /\ requests[1].error_message = TypeErrorMsg
    /\ requests[1].new_wins_found = 0
    /\ \E row \in Rows(wins) : row.submitted_by = NONE

----------------------------------------------------------------------------
\* C37: a request carries an error message if and only if it is failed.
C37_MessageIffFailed ==
    \A r \in 1..Len(requests) :
        requests[r].error_message # NONE <=> requests[r].status = "failed"

----------------------------------------------------------------------------
\* The request was created more than 12 hours ago.
Old(r) == now - requests[r].created_at > StuckTaskHours

\* The request is claimed, old, and has its turn in the running sweep
\* before it: the sweep is about to list, or holds the request in what is
\* left of its list and is not ingesting for it.
AwaitsTurnOld(r) ==
    /\ r <= Len(requests)
    /\ IsProcessing(requests[r])
    /\ Old(r)
    /\ \/ orch.pc = "list"
       \/ /\ orch.pc \in {"loop", "extract", "save", "save_commit", "saved"}
          /\ \E k \in 1..Len(orch.processing) :
                 orch.processing[k] = r /\ (k > 1 \/ orch.pc = "loop")

\* The request is failed with the timeout message.
TimedOut(r) ==
    requests[r].status = "failed" /\ requests[r].error_message = TimeoutMsg

\* C38: the age that the stuck check tests runs from the creation of the
\* request.  A claim of a request that is old leaves the sweep about to
\* list it; from there the request awaits its turn until the sweep fails
\* it with the timeout message, which happens before the sweep ends; and
\* no poll is made for a request that is old.
C38_AgeFromCreation ==
    /\ [][\A r \in 1..Len(requests) :
            /\ orch.pc = "commit_claim" /\ orch.pending = r
               /\ IsProcessing(requests'[r]) /\ Old(r) => AwaitsTurnOld(r)'
            /\ AwaitsTurnOld(r) =>
                  \/ AwaitsTurnOld(r)'
                  \/ TimedOut(r)' /\ orch'.polled = NULL]_vars
    /\ [][orch.pc = "loop" /\ orch.processing # <<>>
          /\ orch'.polled = requests[Head(orch.processing)].response_id
          /\ orch' # orch
            => ~Old(Head(orch.processing))]_vars
    /\ \A r \in 1..2 : AwaitsTurnOld(r) ~> TimedOut(r)

\* A sweep has claimed a request that is old and is about to list the
\* processing requests.
C38_Witness ==
    /\ orch.pc = "list"
    /\ orch.pending # NULL
    /\ IsProcessing(requests[orch.pending])
    /\ requests[orch.pending].response_id = orch.response_id
    /\ Old(orch.pending)

----------------------------------------------------------------------------
\* C39: the counts of a run that reports them are ordered: submitted <=
\* classified <= checked <= raw.
C39_CountsOrdered ==
    (scrape.pc = "done" /\ CountKeys \subseteq DOMAIN scrape.result) =>
        /\ scrape.result.wins_submitted <= scrape.result.wins_identified
        /\ scrape.result.wins_identified <= scrape.result.new_links_checked
        /\ scrape.result.new_links_checked <= scrape.result.raw_links_found

----------------------------------------------------------------------------
\* The polling thread has stopped.
Stopped == orch.pc \in {"exited", "killed"}

\* C40: the stop takes effect between sweeps only.  The thread stops from
\* its sleep and after the flag was cleared, never inside a sweep; a
\* sweep begins only while the flag is set; and once the thread has
\* stopped no task is created and no request changes.
C40_StopBetweenSweeps ==
    /\ [][~Stopped /\ Stopped' => orch.pc = "sleep" /\ ~polling_active]_vars
    /\ [][orch.pc = "sleep" /\ orch'.pc \notin {"sleep", "exited", "killed"}
            => polling_active]_vars
    /\ [][Stopped => Stopped' /\ ext' = ext /\ requests' = requests]_vars

=============================================================================
